---- MODULE Spec2Model ----
(***************************************************************************)
(* Model of the moodle.download extension: the archive build pipeline      *)
(* (background.ts buildZip), the chunked 'md-zip' port transfer between    *)
(* background and popup, and the popup's download session (popup.ts).      *)
(*                                                                         *)
(* Strings are sequences of one-character strings.  A URL is a record      *)
(* [doc, slash, frag]: the document it addresses, whether its path ends    *)
(* with '/', and whether it carries a '#fragment'.                         *)
(***************************************************************************)
EXTENDS Integers, Sequences, FiniteSets, TLC

\* ------------------------------------------------------------------ bounds

\* Number of plain file documents on the course page.
NDocs == 4

\* Number of resources in a selection that gets every kind of response.
MaxSelected == 2

\* Number of chunk-size multiples the archive sizes range over.
MaxChunks == 3

\* Number of download sessions the popup may start.
MaxSessions == 3

\* Number of entries of a stored tracking map that is loaded on its own.
MaxStored == 2

\* Number of loads made one after the other from one storage.
MaxLoads == 3

\* Number of ensureUniquePath calls made on one registry.
MaxCalls == 4

\* Length of the varied end of a name given to sanitizeFileName.
MaxTail == 3

\* Length of a list given to dedupeResources.
MaxList == 3

\* Number of calls made on the storage wrapper.
MaxOps == 3

\* Number of calls of joinZipPath.
MaxJoins == 2

\* Length of the list and size of the limit given to withConcurrency.
MaxItems == 3
MaxLimit == 3

\* ------------------------------------------------------- program constants

\* withConcurrency(files, 3, ...)
FetchLimit == 3

\* const ZIP_CHUNK_SIZE = 1024 * 1024
ZIP_CHUNK_SIZE == 1048576

\* isLikelyHtml: bytes.byteLength >= 20
HtmlSniffMinBytes == 20

\* isLikelyHtml: bytes.slice(0, 64)
HtmlSniffWindow == 64

\* sanitizeFileName: cleaned.length > 180
MaxNameLen == 180

\* ------------------------------------------------------------------ strings

IllegalChars == {"\\", "/", ":", "*", "?", "\"", "<", ">", "|"}

\* representatives of U+0000..U+001F
ControlChars == {"\t", "\n"}

\* \s of a JavaScript regular expression; "nbsp" stands for U+00A0
WhitespaceChars == {" ", "\t", "\n", "nbsp"}

DigitChar == <<"0", "1", "2", "3", "4", "5", "6", "7", "8", "9">>

RECURSIVE ToDecimal(_)
ToDecimal(n) ==
    IF n < 10 THEN <<DigitChar[n + 1]>>
    ELSE ToDecimal(n \div 10) \o <<DigitChar[(n % 10) + 1]>>

Lower(c) ==
    CASE c = "A" -> "a"
      [] c = "B" -> "b"
      [] c = "P" -> "p"
      [] OTHER -> c

ToLowerCase(s) == [i \in 1..Len(s) |-> Lower(s[i])]

\* s.lastIndexOf(c), 1-based; 0 when c does not occur
LastIndexOf(s, c) ==
    LET hits == {i \in 1..Len(s) : s[i] = c}
    IN IF hits = {} THEN 0 ELSE CHOOSE i \in hits : \A j \in hits : j <= i

EndsWith(s, t) ==
    /\ Len(t) <= Len(s)
    /\ SubSeq(s, Len(s) - Len(t) + 1, Len(s)) = t

\* a replacement of the slash alone
ReplaceIllegalSlashOnly(s) == [i \in 1..Len(s) |-> IF s[i] = "/" THEN "_" ELSE s[i]]

\* .replace(/[\\/:*?"<>|\u0000-\u001F]/g, '_')
ReplaceIllegal(s) ==
    [i \in 1..Len(s) |-> IF s[i] \in IllegalChars \cup ControlChars THEN "_" ELSE s[i]]

\* .replace(/\s+/g, ' ')
\* every character that is not whitespace is kept; of a run of whitespace the
\* first character is kept, as a space
CollapseWhitespace(s) ==
    LET marked == [i \in 1..Len(s) |->
                      [char |-> IF s[i] \in WhitespaceChars THEN " " ELSE s[i],
                       inRun |-> s[i] \in WhitespaceChars /\ i > 1 /\ s[i - 1] \in WhitespaceChars]]
        Kept(m) == ~m.inRun
        kept == SelectSeq(marked, Kept)
    IN [i \in 1..Len(kept) |-> kept[i].char]

\* String.prototype.trim
RECURSIVE TrimStart(_)
TrimStart(s) ==
    IF s # <<>> /\ s[1] \in WhitespaceChars THEN TrimStart(Tail(s)) ELSE s

RECURSIVE TrimEnd(_)
TrimEnd(s) ==
    IF s # <<>> /\ s[Len(s)] \in WhitespaceChars THEN TrimEnd(SubSeq(s, 1, Len(s) - 1)) ELSE s

\* a trim of the start alone
TrimStartOnly(s) == TrimStart(s)

Trim(s) == TrimEnd(TrimStart(s))

\* a cut at the limit that is not trimmed again
sanitizeFileNameUntrimmedCut(name) ==
    LET cleaned == Trim(CollapseWhitespace(ReplaceIllegal(name)))
        limited == IF Len(cleaned) > MaxNameLen THEN SubSeq(cleaned, 1, MaxNameLen) ELSE cleaned
    IN IF limited = <<>> THEN <<"f", "i", "l", "e">> ELSE limited

sanitizeFileName(name) ==
    LET cleaned == Trim(CollapseWhitespace(ReplaceIllegal(name)))
        fallback == <<"f", "i", "l", "e">>
        limited == IF Len(cleaned) > MaxNameLen
                   THEN Trim(SubSeq(cleaned, 1, MaxNameLen))
                   ELSE cleaned
    IN IF limited = <<>> THEN fallback ELSE limited

\* path.split('/')
RECURSIVE Split(_, _)
Split(s, sep) ==
    LET hits == {i \in 1..Len(s) : s[i] = sep}
    IN IF hits = {} THEN <<s>>
       ELSE LET i == CHOOSE k \in hits : \A j \in hits : k <= j
            IN <<SubSeq(s, 1, i - 1)>> \o Split(SubSeq(s, i + 1, Len(s)), sep)

\* parts.join('/')
RECURSIVE Join(_, _)
Join(parts, sep) ==
    IF parts = <<>> THEN <<>>
    ELSE IF Len(parts) = 1 THEN parts[1]
    ELSE parts[1] \o <<sep>> \o Join(Tail(parts), sep)

RECURSIVE FilterNonEmpty(_)
FilterNonEmpty(parts) ==
    IF parts = <<>> THEN <<>>
    ELSE IF parts[1] = <<>> THEN FilterNonEmpty(Tail(parts))
    ELSE <<parts[1]>> \o FilterNonEmpty(Tail(parts))

joinZipPath(path, fileName) ==
    LET split == Split(path, "/")
        cleanedPath == Join(FilterNonEmpty([i \in 1..Len(split) |-> sanitizeFileName(split[i])]), "/")
    IN IF cleanedPath # <<>>
       THEN cleanedPath \o <<"/">> \o sanitizeFileName(fileName)
       ELSE sanitizeFileName(fileName)

\* `${base} (${i})${ext}`
Numbered(base, i, ext) == base \o <<" ", "(">> \o ToDecimal(i) \o <<")">> \o ext

\* a counter that is never advanced
FirstFreeCounterStuck(existing, base, ext, i) == i

\* let i = 1; while (existing.has(`${base} (${i})${ext}`)) i += 1
RECURSIVE FirstFreeCounter(_, _, _, _)
FirstFreeCounter(existing, base, ext, i) ==
    IF Numbered(base, i, ext) \in existing
    THEN FirstFreeCounter(existing, base, ext, i + 1)
    ELSE i

\* ensureUniquePath(existing, fullPath): the path returned; the caller's registry
\* becomes existing \cup {the path returned}
ensureUniquePath(existing, fullPath) ==
    IF fullPath \notin existing THEN fullPath
    ELSE LET dot == LastIndexOf(fullPath, ".")
             base == IF dot > 0 THEN SubSeq(fullPath, 1, dot - 1) ELSE fullPath
             ext == IF dot > 0 THEN SubSeq(fullPath, dot, Len(fullPath)) ELSE <<>>
         IN Numbered(base, FirstFreeCounter(existing, base, ext, 1), ext)

\* --------------------------------------------------------------------- URLs

\* a URL that keeps its hash
normalizeUrlKeepHash(url) == url

\* normalizeUrl(url): new URL(url) with the hash removed
normalizeUrl(url) == [url EXCEPT !.frag = FALSE]

\* normalizeUrlKey(url): the identity key; fragment stripped, trailing slash
\* normalized
normalizeUrlKey(url) == [url EXCEPT !.frag = FALSE, !.slash = FALSE]

Url(d) == [doc |-> d, slash |-> FALSE, frag |-> FALSE]

\* the last segment of the URL's pathname, as u.pathname.split('/').pop()
DocFile(d) ==
    IF d <= 2 THEN <<"a", ".", "p">>
    ELSE <<"f">> \o ToDecimal(d) \o <<".", "P">>

PathLast(url) == IF url.slash THEN <<>> ELSE DocFile(url.doc)

\* getExtFromUrl(url): <<>> stands for undefined
getExtFromUrl(url) ==
    LET last == PathLast(url)
        dot == LastIndexOf(last, ".")
    IN IF dot <= 1 THEN <<>>
       ELSE ToLowerCase(SubSeq(last, dot + 1, Len(last)))

AlnumChars == {"a", "b", "f", "p", "A", "B", "P", "h", "c"} \cup {DigitChar[i] : i \in 1..10}

\* /\.[a-z0-9]{1,5}$/i
HasShortExt(s) ==
    \E k \in 1..5 :
        /\ Len(s) >= k + 1
        /\ s[Len(s) - k] = "."
        /\ \A j \in (Len(s) - k + 1)..Len(s) : s[j] \in AlnumChars

ensureNameHasExt(name, extension) ==
    LET clean == sanitizeFileName(name)
    IN IF extension = <<>> THEN clean
       ELSE IF EndsWith(ToLowerCase(clean), <<".">> \o ToLowerCase(extension)) THEN clean
       ELSE IF HasShortExt(clean) THEN clean
       ELSE clean \o <<".">> \o extension

\* ---------------------------------------------------------------- resources

File(idc, name, url, path) ==
    [id |-> <<"r", idc>>, name |-> name, url |-> url, type |-> "file", path |-> path]

\* The d-th plain file of the course page.  Files 1 and 2 get the same entry
\* path; file 3 lies at the top of the archive (empty path).
PlainFile(d) ==
    File(DigitChar[d + 1],
         IF d = 1 THEN <<"a">> ELSE IF d = 2 THEN <<"a", ".", "p">> ELSE <<"f">> \o ToDecimal(d),
         Url(d),
         IF d = 3 THEN <<>> ELSE <<"W", " ", "1">>)

\* The first file again, linked with a fragment and with a trailing slash.
FragVariant == [PlainFile(1) EXCEPT !.id = <<"r", "x">>, !.url = [Url(1) EXCEPT !.frag = TRUE]]

SlashVariant == [PlainFile(1) EXCEPT !.id = <<"r", "y">>, !.url = [Url(1) EXCEPT !.slash = TRUE]]

FolderDoc == NDocs + 2

\* a document only reachable through the folder listing
ChildDoc == NDocs + 1

Folder ==
    [id |-> <<"r", "F">>, name |-> <<"F">>, url |-> Url(FolderDoc), type |-> "folder",
     path |-> <<"W", " ", "1", "/", "F">>]

\* a deduplication that keeps the last resource of each key
dedupeResourcesKeepLast(resources) ==
    LET marked == [i \in 1..Len(resources) |->
                      [res |-> resources[i],
                       again |-> \E j \in (i + 1)..Len(resources) :
                                     normalizeUrl(resources[j].url) = normalizeUrl(resources[i].url)]]
        Kept(m) == ~m.again
        kept == SelectSeq(marked, Kept)
    IN [i \in 1..Len(kept) |-> kept[i].res]

\* a second folder of the course page
OtherFolder ==
    [id |-> <<"r", "G">>, name |-> <<"G">>, url |-> Url(NDocs + 4), type |-> "folder",
     path |-> <<"W", " ", "1", "/", "G">>]

\* dedupeResources(resources)
RECURSIVE dedupeResources(_)
dedupeResources(resources) ==
    IF resources = <<>> THEN <<>>
    ELSE LET n == Len(resources)
             out == dedupeResources(SubSeq(resources, 1, n - 1))
             key == normalizeUrl(resources[n].url)
         IN IF \E i \in 1..Len(out) : normalizeUrl(out[i].url) = key
            THEN out
            ELSE Append(out, resources[n])

\* ------------------------------------------------- insertion-ordered objects

\* A JavaScript object used as a map: a sequence of [key, val] with distinct
\* keys, in insertion order.
MapHas(m, k) == \E i \in 1..Len(m) : m[i].key = k

MapGet(m, k) == m[CHOOSE i \in 1..Len(m) : m[i].key = k].val

MapKeys(m) == {m[i].key : i \in 1..Len(m)}

\* an assignment that replaces the whole map
MapPutAlone(m, k, v) == <<[key |-> k, val |-> v]>>

\* m[k] = v
MapPut(m, k, v) ==
    IF MapHas(m, k)
    THEN [i \in 1..Len(m) |-> IF m[i].key = k THEN [key |-> k, val |-> v] ELSE m[i]]
    ELSE Append(m, [key |-> k, val |-> v])

StoredDownload(url, hash, timestamp, fileName) ==
    [url |-> url, hash |-> hash, timestamp |-> timestamp, fileName |-> fileName]

\* a load that leaves the keys as they are
MigratedKeepKeys(map) == map

\* getTracking: the loop that rewrites every key by normalizeUrlKey
RECURSIVE Migrated(_)
Migrated(map) ==
    IF map = <<>> THEN <<>>
    ELSE LET n == Len(map)
         IN MapPut(Migrated(SubSeq(map, 1, n - 1)), normalizeUrlKey(map[n].key), map[n].val)

\* a load that always takes the map for changed
MigrationChangedAlways(map) == TRUE

\* getTracking: changed
MigrationChanged(map) == \E i \in 1..Len(map) : normalizeUrlKey(map[i].key) # map[i].key

\* calculateHash(bytes): SHA-256, taken to be injective on the contents in use
calculateHash(data) == <<"sha256", data>>

\* ---------------------------------------------------------------- responses

Response(kind, status, err, ctHtml, len, markerAt, marker, data, header) ==
    [kind |-> kind, status |-> status, err |-> err, ctHtml |-> ctHtml, len |-> len,
     markerAt |-> markerAt, marker |-> marker, data |-> data, header |-> header]

NoResponse == Response("none", 0, "", FALSE, 0, -1, "", 0, <<>>)

\* resp.ok is false
RespStatus(code) == Response("status", code, "", FALSE, 0, -1, "", 0, <<>>)

\* fetch or the body read rejects
RespThrow(name) == Response("throw", 0, name, FALSE, 0, -1, "", 0, <<>>)

RespOk(ctHtml, len, markerAt, marker, data, header) ==
    Response("ok", 200, "", ctHtml, len, markerAt, marker, data, header)

\* the server stops sending at this stage of the response ("headers" or
\* "body") and never goes on
RespStall(stage) == Response("stall", 200, stage, FALSE, 0, -1, "", 0, <<>>)

\* fetchWithTimeout: the timer that aborts the request is set before fetch()
\* is called and cleared in the finally block as soon as fetch() has settled,
\* that is when the headers have arrived; the body is read after that
TimerCovers(stage) == stage = "headers"

\* what the worker gets of a response: a stall under the timer is aborted
Settled(r) ==
    IF r.kind = "stall" /\ TimerCovers(r.err) THEN RespThrow("AbortError") ELSE r

MarkerLen(marker) ==
    CASE marker = "<!doctype html" -> 14
      [] marker = "<html" -> 5
      [] OTHER -> 0

Min(a, b) == IF a < b THEN a ELSE b

\* isLikelyHtml(response, bytes)
isLikelyHtml(r) ==
    IF r.ctHtml THEN TRUE
    ELSE IF r.len >= HtmlSniffMinBytes
    THEN /\ r.markerAt >= 0
         /\ r.markerAt + MarkerLen(r.marker) <= Min(r.len, HtmlSniffWindow)
    ELSE FALSE

\* the body is an HTML page: served as text/html, or starting with a doctype or
\* an html tag
BodyIsHtml(r) == r.kind = "ok" /\ (r.ctHtml \/ r.markerAt = 0)

PlainBody(d) == RespOk(FALSE, 100, -1, "", d, <<>>)

FailureResponses == {RespStatus(404), RespThrow("AbortError"), RespThrow("TypeError")}

HtmlResponses ==
    { RespOk(TRUE, 100, -1, "", 3, <<>>),
      RespOk(FALSE, 100, 0, "<!doctype html", 4, <<>>),
      RespOk(FALSE, 13, 0, "<html", 5, <<>>) }

NamedBody == RespOk(FALSE, 7, -1, "", 6, <<"h", ":", "b", ".", "p">>)

\* ------------------------------------------------------------------ state

VARIABLES
    sel,            \* message.resources of the MD_BUILD_ZIP request
    kinds,          \* the responses the server may give to a file request
    store,          \* storage: the persisted downloadTracking map
    store0,         \* the persisted map when the build started
    writes,         \* one record per storage.set of the tracking map
    pc,             \* where buildZip and its message handler stand
    chosen,         \* buildZip: chosen
    expPos,         \* buildZip: position of the folder being expanded
    expanded,       \* buildZip: expanded
    listed,         \* the answers the listing pages of the folders got
    files,          \* buildZip: files
    tracking,       \* buildZip: tracking (in memory)
    loaded,         \* the map getTracking returned
    idx,            \* withConcurrency: idx
    runner,         \* withConcurrency: the runners, each with its current item
    resp,           \* the response each file received
    failedUrls,     \* buildZip: failedUrls
    completed,      \* buildZip: completed
    existingPaths,  \* buildZip: existingPaths
    zip,            \* buildZip: the entries of the JSZip object
    errorsByType,   \* buildZip: errorsByType
    events,         \* MD_COMPLETE messages sent to the popup
    responses       \* sendResponse calls of the message handler

buildVars ==
    <<sel, kinds, store, store0, writes, pc, chosen, expPos, expanded, listed, files, tracking,
      loaded, idx, runner, resp, failedUrls, completed, existingPaths, zip,
      errorsByType, events, responses>>

VARIABLES
    sPc,            \* 'md-zip' port handler of the background: where it stands
    zipLen,         \* port handler: totalBytes of the archive buildZip returned
    chunkIdx,       \* port handler: i of the chunk loop
    caught,         \* port handler: the catch block was entered
    sent,           \* messages the port handler posted
    chan,           \* messages posted and not yet delivered to the popup
    portOpen,       \* both ends of the port are connected
    rState,         \* buildZipStream: the promise of the receiver
    totalBytes,     \* buildZipStream: totalBytes
    chunkSize,      \* buildZipStream: chunkSize
    totalChunks,    \* buildZipStream: totalChunks
    buffer,         \* buildZipStream: buffer
    receivedChunks, \* buildZipStream: receivedChunks
    rLog            \* messages the receiver's onMessage handled

streamVars ==
    <<sPc, zipLen, chunkIdx, caught, sent, chan, portOpen, rState, totalBytes, chunkSize,
      totalChunks, buffer, receivedChunks, rLog>>

VARIABLES
    popupOpen,      \* a popup document is loaded
    buttonsEnabled, \* popup: the controls setButtonsEnabled switches
    errorPanel,     \* popup: the error panel is shown
    lastFailedUrls, \* popup: lastFailedUrls
    downloads,      \* popup: the phase of each startDownload execution
    streamBuild,    \* background: the buildZip execution of each stream request
    fallbackBuild,  \* background: the buildZip execution of each MD_BUILD_ZIP fallback
    port,           \* the 'md-zip' port of each startDownload execution
    tracked         \* storage: the tracking map holds records

sessionVars ==
    <<popupOpen, buttonsEnabled, errorPanel, lastFailedUrls, downloads, streamBuild,
      fallbackBuild, port, tracked>>

VARIABLES
    unitPc,         \* a function called on its own: how often it has been applied
    sanIn,          \* sanitizeFileName: name
    sanOut,         \* sanitizeFileName(name)
    sanAgain,       \* sanitizeFileName(sanitizeFileName(name))
    registry,       \* ensureUniquePath: existing
    calls,          \* the calls made of the function or wrapper called on its own
    dedIn,          \* dedupeResources: resources
    dedOut,         \* dedupeResources(resources)
    dedAgain,       \* dedupeResources(dedupeResources(resources))
    kvStore,        \* the content of the local storage area
    loads           \* getTracking: the loads made from that storage

unitVars ==
    <<unitPc, sanIn, sanOut, sanAgain, registry, calls, dedIn, dedOut, dedAgain, kvStore, loads>>

\* no function is called on its own
UnitsIdle ==
    /\ unitPc = "none"
    /\ sanIn = <<>>
    /\ sanOut = <<>>
    /\ sanAgain = <<>>
    /\ registry = {}
    /\ calls = <<>>
    /\ dedIn = <<>>
    /\ dedOut = <<>>
    /\ dedAgain = <<>>
    /\ kvStore = <<>>
    /\ loads = <<>>

\* ----------------------------------------------------------- what came before

VARIABLES
    retryOf,        \* popup: the build whose failed files the retry is for
    shown,          \* popup: the counts startDownload displayed and notified
    telemetry,      \* buildZip: the call of postTelemetryIfEnabled and how it ended
    pool,           \* withConcurrency called on its own: its locals and its promise
    progress,       \* the MD_PROGRESS events of phase 'fetch' the build has sent
    resetOf         \* MD_RESET_TRACKING: acknowledged, and the map it replaced

auxVars == <<retryOf, shown, telemetry, pool, progress, resetOf>>

\* no build came before
NoRetry == [retry |-> FALSE, failed |-> <<>>, archived |-> {}]

NoCounts == [path |-> "none", status |-> 0, notified |-> 0, notice |-> 0]
NoTelemetry == [optIn |-> FALSE, request |-> "none", sent |-> FALSE]
NoPool == [st |-> "none", items |-> <<>>, limit |-> 0, idx |-> 0, runners |-> <<>>,
           results |-> <<>>, invoked |-> <<>>]
NoReset == [acked |-> FALSE, before |-> <<>>]
AuxIdle ==
    /\ retryOf = NoRetry /\ shown = NoCounts /\ telemetry = NoTelemetry /\ pool = NoPool
    /\ progress = <<>>
    /\ resetOf = NoReset

ErrorLabels == {"404", "timeout", "network_error", "likely_login_required", "folder_expand_error"}

\* increment(map, key)
increment(map, key) == [map EXCEPT ![key] = @ + 1]

\* Date.now() during the build; stored records are older
Now == 1

\* ------------------------------------------------------------ folder expansion

\* expandFolderResource: dedup of the links, first link per key
RECURSIVE DedupLinks(_)
DedupLinks(links) ==
    IF links = <<>> THEN <<>>
    ELSE LET n == Len(links)
             out == DedupLinks(SubSeq(links, 1, n - 1))
         IN IF \E i \in 1..Len(out) : normalizeUrlKey(out[i]) = normalizeUrlKey(links[n])
            THEN out
            ELSE Append(out, links[n])

\* a child placed one level below the folder's path
ChildResourceDeeper(folder, url) ==
    LET last == IF PathLast(url) = <<>> THEN <<"f", "i", "l", "e">> ELSE PathLast(url)
        name == sanitizeFileName(last)
    IN [id |-> sanitizeFileName(folder.id \o <<"-">> \o name), name |-> name, url |-> url,
        type |-> "file", path |-> folder.path \o <<"/">> \o folder.name]

\* expandFolderResource: the resource made of one link
ChildResource(folder, url) ==
    LET last == IF PathLast(url) = <<>> THEN <<"f", "i", "l", "e">> ELSE PathLast(url)
        name == sanitizeFileName(last)
    IN [id |-> sanitizeFileName(folder.id \o <<"-">> \o name), name |-> name, url |-> url,
        type |-> "file", path |-> folder.path]

expandFolderResource(folder, links) ==
    LET dedup == DedupLinks(links)
    IN [i \in 1..Len(dedup) |-> ChildResource(folder, dedup[i])]

\* what the folder's listing page may hold
Listing(ok, status, links) == [ok |-> ok, status |-> status, links |-> links]

Listings ==
    { Listing(FALSE, 0, <<>>),
      Listing(TRUE, 404, <<>>),
      Listing(TRUE, 200, <<Url(ChildDoc)>>),
      Listing(TRUE, 200, <<Url(ChildDoc), [Url(ChildDoc) EXCEPT !.slash = TRUE],
                           [Url(1) EXCEPT !.frag = TRUE]>>) }

\* the first folder of chosen at or after position from; Len(chosen) + 1 if none
NextFolder(list, from) ==
    LET at == {i \in from..Len(list) : list[i].type = "folder"}
    IN IF at = {} THEN Len(list) + 1 ELSE CHOOSE i \in at : \A j \in at : i <= j

\* --------------------------------------------------------------- fetch stage

\* a pool with one runner per item
PoolSizeUnbounded(limit, n) == n

\* withConcurrency: Math.min(limit, items.length) runners
PoolSize(limit, n) == Min(limit, n)

Runner(st, item) == [st |-> st, item |-> item]

\* sendToPopup({ type: 'MD_PROGRESS', phase: 'fetch', current, total })
ProgressEvent(current, total) == [current |-> current, total |-> total]

\* a worker that reports the counter as it was before its file
FileCompletedStale(log, done, total, more) ==
    log \o <<ProgressEvent(done - 1, total)>>
        \o (IF more THEN <<ProgressEvent(done, total)>> ELSE <<>>)

\* the worker has counted its file (completed += 1) and sends the event of
\* its end; a runner that takes another file sends the event of its start
FileCompleted(log, done, total, more) ==
    log \o <<ProgressEvent(done, total)>>
        \o (IF more THEN <<ProgressEvent(done, total)>> ELSE <<>>)

\* buildZip: withConcurrency(files, 3, worker) up to the first await of each runner
StartFetch(fs) ==
    LET k == PoolSize(FetchLimit, Len(fs))
    IN /\ files' = fs
       /\ failedUrls' = <<>>
       /\ completed' = 0
       /\ resp' = [i \in 1..Len(fs) |-> NoResponse]
       /\ runner' = [w \in 1..k |-> Runner("fetch", w)]
       /\ idx' = k
       /\ pc' = IF k = 0 THEN "zip" ELSE "fetch"
       /\ progress' = [w \in 1..k |-> ProgressEvent(0, Len(fs))]

\* buildZip: the loop over chosen, from position from up to the next await
ContinueExpand(ex, from) ==
    LET nf == NextFolder(chosen, from)
        ex2 == ex \o SubSeq(chosen, from, nf - 1)
    IN /\ expanded' = ex2
       /\ expPos' = nf
       /\ IF nf <= Len(chosen)
          THEN /\ pc' = "expand"
               /\ UNCHANGED <<files, failedUrls, completed, resp, runner, idx, progress>>
          ELSE StartFetch(dedupeResources(ex2))

\* a pool that resolves when its first runner ends
AdvanceFirstEnd(w) ==
    /\ IF idx < Len(files)
       THEN /\ runner' = [runner EXCEPT ![w] = Runner("fetch", idx + 1)]
            /\ idx' = idx + 1
            /\ pc' = pc
       ELSE /\ runner' = [runner EXCEPT ![w] = Runner("end", 0)]
            /\ idx' = idx
            /\ pc' = "zip"

\* withConcurrency run(): the runner takes the next index or ends; buildZip
\* goes on to the archive once every runner has ended
Advance(w) ==
    /\ IF idx < Len(files)
       THEN /\ runner' = [runner EXCEPT ![w] = Runner("fetch", idx + 1)]
            /\ idx' = idx + 1
            /\ pc' = pc
       ELSE /\ runner' = [runner EXCEPT ![w] = Runner("end", 0)]
            /\ idx' = idx
            /\ pc' = IF \A v \in DOMAIN runner : v = w \/ runner[v].st = "end"
                     THEN "zip" ELSE pc

\* the worker's name of the file: headerName || ensureNameHasExt(file.name, urlExt)
BaseName(file, r) ==
    IF r.header # <<>> THEN sanitizeFileName(r.header)
    ELSE ensureNameHasExt(file.name, getExtFromUrl(file.url))

\* the errorsByType key of a response the worker rejects; "" if it archives it
FailureLabel(r) ==
    CASE r.kind = "status" -> "404"
      [] r.kind = "throw" -> IF r.err = "AbortError" THEN "timeout" ELSE "network_error"
      [] r.kind = "ok" /\ isLikelyHtml(r) -> "likely_login_required"
      [] OTHER -> ""

\* -------------------------------------------------------- buildZip as steps

Complete(ok, fileCount, failedCount) ==
    [type |-> "MD_COMPLETE", ok |-> ok, fileCount |-> fileCount, failedCount |-> failedCount]

BuildZipResult(ok, hasBuffer, entries, failed, error) ==
    [type |-> "MD_BUILD_ZIP_RESULT", ok |-> ok, hasBuffer |-> hasBuffer, zipBuffer |-> entries,
     failedUrls |-> failed, error |-> error]

\* err.message of what an awaited call of the build rejects with, by the
\* position of the build
RaisedBy(p) ==
    CASE p = "load" -> "storage read failed"
      [] p = "zip" -> "serialization failed"
      [] p = "persist" -> "storage write failed"
      [] OTHER -> "download failed"

WriteRecord(at, done, total) == [at |-> at, completed |-> done, total |-> total]

\* onMessage MD_BUILD_ZIP: buildZip is called and runs up to its first await
StartBuild ==
    /\ pc = "idle"
    /\ chosen' = dedupeResources(sel)
    /\ zip' = {}
    /\ existingPaths' = {}
    /\ pc' = "load"
    /\ UNCHANGED <<auxVars, unitVars, streamVars, sessionVars, sel, kinds, store, store0, writes, expPos, expanded, listed, files, tracking,
                   loaded, idx, runner, resp, failedUrls, completed, errorsByType, events,
                   responses>>

\* getTracking and getTelemetryPref have returned; the loop over chosen runs up to
\* the first folder, or into the fetch stage
LoadTracking ==
    /\ pc = "load"
    /\ LET migrated == Migrated(store)
       IN /\ tracking' = migrated
          /\ loaded' = migrated
          /\ IF MigrationChanged(store)
             THEN /\ store' = migrated
                  /\ writes' = Append(writes, WriteRecord("load", 0, 0))
             ELSE UNCHANGED <<store, writes>>
    /\ ContinueExpand(<<>>, 1)
    /\ UNCHANGED <<retryOf, shown, telemetry, pool, resetOf, unitVars, streamVars, sessionVars, sel, kinds, store0, chosen, listed, existingPaths, zip,
                   errorsByType, events, responses>>

\* expandFolderResource of the folder at expPos has returned or thrown; it
\* throws when fetch or resp.text() rejects, and does not look at resp.ok
FolderExpanded ==
    /\ pc = "expand"
    /\ \E l \in Listings :
          /\ listed' = Append(listed, [folder |-> chosen[expPos].url, ok |-> l.ok,
                                       status |-> l.status])
          /\ IF l.ok
             THEN /\ ContinueExpand(expanded \o expandFolderResource(chosen[expPos], l.links),
                                    expPos + 1)
                  /\ UNCHANGED errorsByType
             ELSE /\ ContinueExpand(expanded, expPos + 1)
                  /\ errorsByType' = increment(errorsByType, "folder_expand_error")
    /\ UNCHANGED <<retryOf, shown, telemetry, pool, resetOf, unitVars, streamVars, sessionVars, sel, kinds, store, store0, writes, chosen, tracking, loaded,
                   existingPaths, zip, events, responses>>

\* the worker of runner w has its response (fetchWithTimeout and
\* readResponseBytesWithProgress have returned or thrown)
\* or waits in reader.read() for a body that does not go on
FetchDone(w) ==
    /\ pc = "fetch"
    /\ runner[w].st = "fetch"
    /\ \E sent0 \in kinds :
          LET r == Settled(sent0)
              i == runner[w].item
              file == files[i]
              label == FailureLabel(r)
          IN /\ resp' = [resp EXCEPT ![i] = r]
             /\ IF r.kind = "stall"
                THEN /\ runner' = [runner EXCEPT ![w] = Runner("read", i)]
                     /\ UNCHANGED <<errorsByType, failedUrls, completed, idx, pc,
                                    existingPaths, zip, progress>>
                ELSE IF label # ""
                THEN /\ errorsByType' = increment(errorsByType, label)
                     /\ failedUrls' = Append(failedUrls, file.url)
                     /\ completed' = completed + 1
                     /\ progress' = FileCompleted(progress, completed + 1, Len(files),
                                                  idx < Len(files))
                     /\ Advance(w)
                     /\ UNCHANGED <<existingPaths, zip>>
                ELSE LET fullPath == ensureUniquePath(existingPaths,
                                                      joinZipPath(file.path, BaseName(file, r)))
                     IN /\ existingPaths' = existingPaths \cup {fullPath}
                        /\ zip' = {e \in zip : e.path # fullPath}
                                    \cup {[path |-> fullPath, data |-> r.data, file |-> i]}
                        /\ runner' = [runner EXCEPT ![w] = Runner("hash", i)]
                        /\ UNCHANGED <<errorsByType, failedUrls, completed, idx, pc, progress>>
    /\ UNCHANGED <<retryOf, shown, telemetry, pool, resetOf, unitVars, streamVars, sessionVars, sel, kinds, store, store0, writes, chosen, expPos, expanded, listed, files,
                   tracking, loaded, events, responses>>

\* calculateHash has returned: the worker records the file in tracking
HashDone(w) ==
    /\ pc = "fetch"
    /\ runner[w].st = "hash"
    /\ LET i == runner[w].item
           file == files[i]
           normalized == normalizeUrlKey(file.url)
       IN tracking' = MapPut(tracking, normalized,
                             StoredDownload(normalized, calculateHash(resp[i].data), Now,
                                            BaseName(file, resp[i])))
    /\ completed' = completed + 1
    /\ progress' = FileCompleted(progress, completed + 1, Len(files), idx < Len(files))
    /\ Advance(w)
    /\ UNCHANGED <<retryOf, shown, telemetry, pool, resetOf, unitVars, streamVars, sessionVars, sel, kinds, store, store0, writes, chosen, expPos, expanded, listed, files, loaded,
                   resp, failedUrls, existingPaths, zip, errorsByType, events, responses>>

\* zip.generateAsync has returned the archive
ZipDone ==
    /\ pc = "zip"
    /\ pc' = "persist"
    /\ UNCHANGED <<auxVars, unitVars, streamVars, sessionVars, sel, kinds, store, store0, writes, chosen, expPos, expanded, listed, files,
                   tracking, loaded, idx, runner, resp, failedUrls, completed, existingPaths,
                   zip, errorsByType, events, responses>>

\* setTracking(tracking) has returned
PersistDone ==
    /\ pc = "persist"
    /\ store' = tracking
    /\ writes' = Append(writes, WriteRecord("persist", completed, Len(files)))
    /\ pc' = "telemetry"
    /\ UNCHANGED <<auxVars, unitVars, streamVars, sessionVars, sel, kinds, store0, chosen, expPos, expanded, listed, files, tracking, loaded,
                   idx, runner, resp, failedUrls, completed, existingPaths, zip,
                   errorsByType, events, responses>>

\* buildZip: successfulCount
successfulCount(total, failed) == total - Len(failed)

\* a telemetry call that lets the failure of its request through
postTelemetryRethrowing(optIn, request) ==
    [sent |-> optIn /\ request = "ok", raised |-> optIn /\ request = "error"]

\* postTelemetryIfEnabled(stats, optIn): nothing is sent without the opt-in;
\* the request is awaited inside a try whose catch block is empty, so the
\* call resolves whether fetch resolved ("ok") or rejected ("error")
postTelemetryIfEnabled(optIn, request) ==
    [sent |-> optIn /\ request = "ok", raised |-> FALSE]

\* postTelemetryIfEnabled has returned; buildZip returns and the handler
\* answers, or starts downloadZip. What postTelemetryIfEnabled lets through
\* reaches the catch block of the handler.
BuildReturns ==
    /\ pc = "telemetry"
    /\ \E optIn \in BOOLEAN, request \in {"ok", "error"}, returnBuffer \in BOOLEAN :
          LET posted == postTelemetryIfEnabled(optIn, request)
          IN  /\ telemetry' = [optIn |-> optIn, request |-> request, sent |-> posted.sent]
              /\ IF posted.raised
                 THEN /\ events' = Append(events, Complete(FALSE, 0, 0))
                      /\ responses' = Append(responses,
                             BuildZipResult(FALSE, FALSE, {}, <<>>, "telemetry failed"))
                      /\ pc' = "failed"
                 ELSE /\ events' = Append(events,
                             Complete(TRUE, successfulCount(Len(files), failedUrls),
                                      Len(failedUrls)))
                      /\ IF returnBuffer
                         THEN /\ responses' = Append(responses,
                                     BuildZipResult(TRUE, TRUE, zip, failedUrls, ""))
                              /\ pc' = "done"
                         ELSE /\ pc' = "download"
                              /\ UNCHANGED responses
    /\ UNCHANGED <<retryOf, shown, pool, progress, resetOf, unitVars, streamVars, sessionVars, sel, kinds, store, store0, writes, chosen, expPos, expanded, listed, files,
                   tracking, loaded, idx, runner, resp, failedUrls, completed, existingPaths,
                   zip, errorsByType>>

\* downloadZip has resolved with a download id
DownloadDone ==
    /\ pc = "download"
    /\ responses' = Append(responses, BuildZipResult(TRUE, FALSE, {}, failedUrls, ""))
    /\ pc' = "done"
    /\ UNCHANGED <<auxVars, unitVars, streamVars, sessionVars, sel, kinds, store, store0, writes, chosen, expPos, expanded, listed, files,
                   tracking, loaded, idx, runner, resp, failedUrls, completed, existingPaths,
                   zip, errorsByType, events>>

\* a catch block that stores the tracking map of the build
HandlerCatchStoring ==
    /\ pc \in {"load", "zip", "persist", "download"}
    /\ events' = Append(events, Complete(FALSE, 0, 0))
    /\ responses' = Append(responses, BuildZipResult(FALSE, FALSE, {}, <<>>, RaisedBy(pc)))
    /\ pc' = "failed"
    /\ store' = tracking
    /\ UNCHANGED <<auxVars, unitVars, streamVars, sessionVars, sel, kinds, store0, writes, chosen, expPos, expanded, listed, files,
                   tracking, loaded, idx, runner, resp, failedUrls, completed, existingPaths,
                   zip, errorsByType>>

\* a catch block that goes on after a failed write of the tracking map
HandlerCatchIgnoringWrite ==
    /\ pc \in {"load", "zip", "persist", "download"}
    /\ IF pc = "persist"
       THEN /\ pc' = "telemetry"
            /\ UNCHANGED <<events, responses>>
       ELSE /\ events' = Append(events, Complete(FALSE, 0, 0))
            /\ responses' = Append(responses, BuildZipResult(FALSE, FALSE, {}, <<>>, RaisedBy(pc)))
            /\ pc' = "failed"
    /\ UNCHANGED <<auxVars, unitVars, streamVars, sessionVars, sel, kinds, store, store0, writes, chosen, expPos, expanded, listed, files,
                   tracking, loaded, idx, runner, resp, failedUrls, completed, existingPaths,
                   zip, errorsByType>>

\* an awaited call outside the per-file try/catch rejects (storage read, archive
\* serialization, storage write, download): the handler's catch answers
HandlerCatch ==
    /\ pc \in {"load", "zip", "persist", "download"}
    /\ events' = Append(events, Complete(FALSE, 0, 0))
    /\ responses' = Append(responses, BuildZipResult(FALSE, FALSE, {}, <<>>, RaisedBy(pc)))
    /\ pc' = "failed"
    /\ UNCHANGED <<auxVars, unitVars, streamVars, sessionVars, sel, kinds, store, store0, writes, chosen, expPos, expanded, listed, files,
                   tracking, loaded, idx, runner, resp, failedUrls, completed, existingPaths,
                   zip, errorsByType>>

\* ------------------------------------------------- the 'md-zip' stream: sender

\* One message of ZipPortMessageFromBackground. The data of a chunk is the
\* slice [lo, hi) of the archive; a byte of the archive is named by its position.
Msg(type, index, lo, hi, total, size, count) ==
    [type |-> type, index |-> index, lo |-> lo, hi |-> hi,
     totalBytes |-> total, chunkSize |-> size, totalChunks |-> count]

\* a chunk count that rounds down
TotalChunksFloor(total) == total \div ZIP_CHUNK_SIZE

\* Math.ceil(totalBytes / ZIP_CHUNK_SIZE)
TotalChunks(total) == (total + ZIP_CHUNK_SIZE - 1) \div ZIP_CHUNK_SIZE

\* a chunk start that counts the chunks from one
ChunkStartOneBased(i) == (i + 1) * ZIP_CHUNK_SIZE

\* start = i * ZIP_CHUNK_SIZE
ChunkStart(i) == i * ZIP_CHUNK_SIZE

\* end = Math.min(totalBytes, start + ZIP_CHUNK_SIZE)
ChunkEnd(start, total) == Min(total, start + ZIP_CHUNK_SIZE)

\* zipBytes.slice(start, end): both ends are clamped to the array
Slice(start, end, total) ==
    LET lo == Min(start, total)
        hi == Min(end, total)
    IN  [lo |-> lo, hi |-> IF hi < lo THEN lo ELSE hi]

MetaMessage(total) ==
    Msg("MD_ZIP_STREAM_META", 0, 0, 0, total, ZIP_CHUNK_SIZE, TotalChunks(total))

ChunkMessage(i, total) ==
    LET start == ChunkStart(i)
        chunk == Slice(start, ChunkEnd(start, total), total)
    IN  Msg("MD_ZIP_STREAM_CHUNK", i, chunk.lo, chunk.hi, 0, 0, 0)

DoneMessage == Msg("MD_ZIP_STREAM_DONE", 0, 0, 0, 0, 0, 0)

ErrorMessage == Msg("MD_ZIP_STREAM_ERROR", 0, 0, 0, 0, 0, 0)

\* a chunk loop that stops one chunk early
LoopContinuesShort(i, count) == i + 1 < count

\* the condition of the chunk loop: i < totalChunks
LoopContinues(i, count) == i < count

\* JSZip never generates an empty archive; the sizes lie around the multiples
\* of the chunk size.
ArchiveSizes ==
    {n \in {k * ZIP_CHUNK_SIZE + d : k \in 0..MaxChunks, d \in {-1, 0, 1}} :
        n >= 1 /\ n <= MaxChunks * ZIP_CHUNK_SIZE}

NullBuffer == [allocated |-> FALSE, size |-> 0, writes |-> <<>>]

StreamIdle ==
    /\ sPc = "idle"
    /\ zipLen = 0
    /\ chunkIdx = 0
    /\ caught = FALSE
    /\ sent = <<>>
    /\ chan = <<>>
    /\ portOpen = FALSE
    /\ rState = "none"
    /\ totalBytes = 0
    /\ chunkSize = 0
    /\ totalChunks = 0
    /\ buffer = NullBuffer
    /\ receivedChunks = 0
    /\ rLog = <<>>

receiverVars == <<rState, totalBytes, chunkSize, totalChunks, buffer, receivedChunks, rLog>>

\* buildZipStream connects, installs its listeners and posts the request; the
\* port handler of the background calls buildZip.
StreamRequest ==
    /\ sPc = "idle"
    /\ rState = "none"
    /\ sPc' = "build"
    /\ portOpen' = TRUE
    /\ rState' = "waiting"
    /\ UNCHANGED <<auxVars, unitVars, buildVars, sessionVars, zipLen, chunkIdx, caught, sent, chan, totalBytes,
                   chunkSize, totalChunks, buffer, receivedChunks, rLog>>

\* await buildZip(resources, {zipName, returnBuffer: true}) returns an archive
StreamBuildReturns ==
    /\ sPc = "build"
    /\ \E n \in ArchiveSizes : zipLen' = n
    /\ sPc' = "meta"
    /\ UNCHANGED <<auxVars, unitVars, buildVars, sessionVars, chunkIdx, caught, sent, chan, portOpen, receiverVars>>

\* await buildZip(...) throws
StreamBuildRaises ==
    /\ sPc = "build"
    /\ sPc' = "catch"
    /\ caught' = TRUE
    /\ UNCHANGED <<auxVars, unitVars, buildVars, sessionVars, zipLen, chunkIdx, sent, chan, portOpen, receiverVars>>

\* port.postMessage(m) inside the try block: it throws on a disconnected port,
\* and it may throw when the message cannot be handed over
Post(m, then) ==
    \E thrown \in BOOLEAN :
        IF portOpen /\ ~thrown
        THEN /\ sent' = Append(sent, m)
             /\ chan' = Append(chan, m)
             /\ sPc' = then
             /\ UNCHANGED caught
        ELSE /\ sPc' = "catch"
             /\ caught' = TRUE
             /\ UNCHANGED <<sent, chan>>

PostMeta ==
    /\ sPc = "meta"
    /\ Post(MetaMessage(zipLen), "chunk")
    /\ chunkIdx' = 0
    /\ UNCHANGED <<auxVars, unitVars, buildVars, sessionVars, zipLen, portOpen, receiverVars>>

PostChunk ==
    /\ sPc = "chunk"
    /\ LoopContinues(chunkIdx, TotalChunks(zipLen))
    /\ Post(ChunkMessage(chunkIdx, zipLen), "chunk")
    /\ chunkIdx' = IF sPc' = "chunk" THEN chunkIdx + 1 ELSE chunkIdx
    /\ UNCHANGED <<auxVars, unitVars, buildVars, sessionVars, zipLen, portOpen, receiverVars>>

PostDone ==
    /\ sPc = "chunk"
    /\ ~LoopContinues(chunkIdx, TotalChunks(zipLen))
    /\ Post(DoneMessage, "finished")
    /\ UNCHANGED <<auxVars, unitVars, buildVars, sessionVars, zipLen, chunkIdx, portOpen, receiverVars>>

\* the catch block: the error message is posted, a throw of that post is ignored
PostError ==
    /\ sPc = "catch"
    /\ sPc' = "finished"
    /\ IF portOpen
       THEN /\ sent' = Append(sent, ErrorMessage)
            /\ chan' = Append(chan, ErrorMessage)
       ELSE UNCHANGED <<sent, chan>>
    /\ UNCHANGED <<auxVars, unitVars, buildVars, sessionVars, zipLen, chunkIdx, caught, portOpen, receiverVars>>

\* the context of the background goes away while the handler runs
PortDisconnects ==
    /\ sPc \in {"build", "meta", "chunk", "catch"}
    /\ portOpen
    /\ sPc' = "gone"
    /\ portOpen' = FALSE
    /\ UNCHANGED <<auxVars, unitVars, buildVars, sessionVars, zipLen, chunkIdx, caught, sent, chan, receiverVars>>

\* ----------------------------------------------- the 'md-zip' stream: receiver

\* buffer.set(data, offset) throws a RangeError when the data does not fit
Fits(buf, offset, m) == offset + (m.hi - m.lo) <= buf.size

\* a receiver that takes error for done
ReceiverOutcomeAnyTerminal(type, allocated) ==
    CASE type \in {"MD_ZIP_STREAM_DONE", "MD_ZIP_STREAM_ERROR"} /\ allocated -> "resolved"
      [] type \in {"MD_ZIP_STREAM_DONE", "MD_ZIP_STREAM_ERROR"} -> "rejected"
      [] OTHER -> "waiting"

\* what handlers.onMessage does to the promise
ReceiverOutcome(type, allocated) ==
    CASE type = "MD_ZIP_STREAM_DONE" /\ allocated -> "resolved"
      [] type = "MD_ZIP_STREAM_DONE" -> "rejected"
      [] type = "MD_ZIP_STREAM_ERROR" -> "rejected"
      [] OTHER -> "waiting"

\* The port delivers in the order of posting; only chunk messages may overtake
\* chunk messages.
Deliverable(j) ==
    \/ j = 1
    \/ /\ chan[j].type = "MD_ZIP_STREAM_CHUNK"
       /\ \A k \in 1..(j - 1) : chan[k].type = "MD_ZIP_STREAM_CHUNK"

Without(seq, j) == SubSeq(seq, 1, j - 1) \o SubSeq(seq, j + 1, Len(seq))

\* handlers.onMessage(msg)
Deliver(j) ==
    /\ rState = "waiting"
    /\ j \in DOMAIN chan
    /\ Deliverable(j)
    /\ LET msg == chan[j]
           outcome == ReceiverOutcome(msg.type, buffer.allocated)
           offset == msg.index * chunkSize
       IN  /\ rLog' = Append(rLog, msg)
           /\ rState' = outcome
           /\ IF outcome = "waiting"
              THEN /\ chan' = Without(chan, j)
                   /\ UNCHANGED portOpen
              ELSE /\ chan' = <<>>
                   /\ portOpen' = FALSE
           /\ IF msg.type = "MD_ZIP_STREAM_META"
              THEN /\ totalBytes' = msg.totalBytes
                   /\ chunkSize' = msg.chunkSize
                   /\ totalChunks' = msg.totalChunks
                   /\ buffer' = [allocated |-> TRUE, size |-> msg.totalBytes, writes |-> <<>>]
                   /\ UNCHANGED receivedChunks
              ELSE IF msg.type = "MD_ZIP_STREAM_CHUNK" /\ buffer.allocated
                                                          /\ Fits(buffer, offset, msg)
              THEN /\ buffer' = [buffer EXCEPT !.writes =
                                    Append(@, [at |-> offset, lo |-> msg.lo, hi |-> msg.hi])]
                   /\ receivedChunks' = receivedChunks + 1
                   /\ UNCHANGED <<totalBytes, chunkSize, totalChunks>>
              ELSE UNCHANGED <<totalBytes, chunkSize, totalChunks, buffer, receivedChunks>>
    /\ UNCHANGED <<auxVars, unitVars, buildVars, sessionVars, sPc, zipLen, chunkIdx, caught, sent>>

\* handlers.onDisconnect: what was posted before has been delivered
OnDisconnect ==
    /\ rState = "waiting"
    /\ sPc = "gone"
    /\ chan = <<>>
    /\ rState' = "rejected"
    /\ UNCHANGED <<auxVars, unitVars, buildVars, sessionVars, sPc, zipLen, chunkIdx, caught, sent, chan, portOpen,
                   totalBytes, chunkSize, totalChunks, buffer, receivedChunks, rLog>>

\* the popup document is closed while the promise is pending
PopupCloses ==
    /\ rState = "waiting"
    /\ sPc # "gone"
    /\ rState' = "closed"
    /\ portOpen' = FALSE
    /\ chan' = <<>>
    /\ UNCHANGED <<auxVars, unitVars, buildVars, sessionVars, sPc, zipLen, chunkIdx, caught, sent,
                   totalBytes, chunkSize, totalChunks, buffer, receivedChunks, rLog>>

\* the byte the buffer holds at position p: the position of the archive it was
\* copied from, -1 where nothing was written
WritesOver(p) ==
    {j \in DOMAIN buffer.writes :
        buffer.writes[j].at <= p /\ p < buffer.writes[j].at + (buffer.writes[j].hi - buffer.writes[j].lo)}

Last(S) == CHOOSE j \in S : \A k \in S : k <= j

BufByte(p) ==
    IF WritesOver(p) = {} THEN -1
    ELSE LET w == buffer.writes[Last(WritesOver(p))] IN w.lo + (p - w.at)

\* Between two neighbouring ends of writes every byte of the buffer comes from
\* the same write, or from none: the buffer is the archive iff it is so at
\* the first byte of each such stretch.
Probes ==
    {p \in {0} \cup {buffer.writes[j].at : j \in DOMAIN buffer.writes}
               \cup {buffer.writes[j].at + (buffer.writes[j].hi - buffer.writes[j].lo) :
                        j \in DOMAIN buffer.writes} :
        p < buffer.size}

BufferIsArchive ==
    /\ buffer.allocated
    /\ buffer.size = zipLen
    /\ \A p \in Probes : BufByte(p) = p

\* ------------------------------------------------- the popup and its builds

Sessions == 1..MaxSessions

NoSession ==
    /\ popupOpen = TRUE
    /\ buttonsEnabled = TRUE
    /\ errorPanel = "hidden"
    /\ lastFailedUrls = <<>>
    /\ downloads = [d \in Sessions |-> "unused"]
    /\ streamBuild = [d \in Sessions |-> "none"]
    /\ fallbackBuild = [d \in Sessions |-> "none"]
    /\ port = [d \in Sessions |-> "none"]
    /\ tracked = FALSE

Unused == {d \in Sessions : downloads[d] = "unused"}

FirstUnused == CHOOSE d \in Unused : \A e \in Unused : d <= e

\* the failedUrls a build reports
FailedUrlLists == {<<>>, <<Url(1)>>}

\* startDownload up to its first await inside buildZipStream: the controls are
\* disabled, lastFailedUrls is emptied, the port is connected and the request
\* posted; when connect throws, the catch block sends MD_BUILD_ZIP instead.
startDownload(d) ==
    /\ buttonsEnabled' = FALSE
    /\ lastFailedUrls' = <<>>
    /\ \E connected \in BOOLEAN :
          IF connected
          THEN /\ downloads' = [downloads EXCEPT ![d] = "stream"]
               /\ streamBuild' = [streamBuild EXCEPT ![d] = "running"]
               /\ port' = [port EXCEPT ![d] = "open"]
               /\ UNCHANGED fallbackBuild
          ELSE /\ downloads' = [downloads EXCEPT ![d] = "fallback"]
               /\ fallbackBuild' = [fallbackBuild EXCEPT ![d] = "running"]
               /\ UNCHANGED <<streamBuild, port>>

\* click on btnDownload with a non-empty selection; a disabled button takes no click
ClickDownload ==
    /\ popupOpen
    /\ buttonsEnabled
    /\ Unused # {}
    /\ errorPanel' = "hidden"
    /\ startDownload(FirstUnused)
    /\ UNCHANGED <<auxVars, unitVars, buildVars, streamVars, popupOpen, tracked>>

\* click on btnRetry, which setButtonsEnabled leaves alone; the button is taken
\* to lie on the error panel and to take clicks only while the panel is shown
ClickRetry ==
    /\ popupOpen
    /\ errorPanel = "shown"
    /\ lastFailedUrls # <<>>
    /\ Unused # {}
    /\ errorPanel' = "hidden"
    /\ startDownload(FirstUnused)
    /\ UNCHANGED <<auxVars, unitVars, buildVars, streamVars, popupOpen, tracked>>

\* click on btnReset: MD_RESET_TRACKING, loadTracking, renderList
ClickReset ==
    /\ popupOpen
    /\ buttonsEnabled
    /\ tracked' = FALSE
    /\ UNCHANGED <<auxVars, unitVars, buildVars, streamVars, popupOpen, buttonsEnabled, errorPanel, lastFailedUrls,
                   downloads, streamBuild, fallbackBuild, port>>

\* The buildZip of a stream request ends and the port handler sends what it
\* has to send. A popup that still listens resolves on done and goes on to
\* save; on error it rejects and its catch block sends MD_BUILD_ZIP. A port
\* is "errored" when cleanup closed it on MD_ZIP_STREAM_ERROR.
StreamBuildOver(d) ==
    /\ streamBuild[d] = "running"
    /\ streamBuild' = [streamBuild EXCEPT ![d] = "over"]
    /\ \E outcome \in {"done", "error"}, persisted \in BOOLEAN, failed \in FailedUrlLists :
          /\ outcome = "done" => persisted
          /\ tracked' = (tracked \/ persisted)
          /\ IF port[d] = "open" /\ downloads[d] = "stream"
             THEN /\ port' = [port EXCEPT ![d] = IF outcome = "done" THEN "closed" ELSE "errored"]
                  /\ IF outcome = "done"
                     THEN /\ downloads' = [downloads EXCEPT ![d] = "saving"]
                          /\ lastFailedUrls' = IF failed # <<>> THEN failed ELSE lastFailedUrls
                          /\ UNCHANGED fallbackBuild
                     ELSE /\ downloads' = [downloads EXCEPT ![d] = "fallback"]
                          /\ fallbackBuild' = [fallbackBuild EXCEPT ![d] = "running"]
                          /\ UNCHANGED lastFailedUrls
             ELSE UNCHANGED <<port, downloads, lastFailedUrls, fallbackBuild>>
    /\ UNCHANGED <<auxVars, unitVars, buildVars, streamVars, popupOpen, buttonsEnabled, errorPanel>>

\* The buildZip of an MD_BUILD_ZIP fallback ends and the response arrives: with
\* a buffer the popup goes on to save, otherwise buildZipStream throws and
\* startDownload shows the error and enables the controls.
FallbackBuildOver(d) ==
    /\ fallbackBuild[d] = "running"
    /\ fallbackBuild' = [fallbackBuild EXCEPT ![d] = "over"]
    /\ \E ok \in BOOLEAN, failed \in FailedUrlLists :
          /\ tracked' = (tracked \/ ok)
          /\ IF downloads[d] = "fallback"
             THEN IF ok
                  THEN /\ downloads' = [downloads EXCEPT ![d] = "saving"]
                       /\ lastFailedUrls' = IF failed # <<>> THEN failed ELSE lastFailedUrls
                       /\ UNCHANGED <<buttonsEnabled, errorPanel>>
                  ELSE /\ downloads' = [downloads EXCEPT ![d] = "finished"]
                       /\ errorPanel' = "shown"
                       /\ buttonsEnabled' = TRUE
                       /\ UNCHANGED lastFailedUrls
             ELSE UNCHANGED <<downloads, lastFailedUrls, buttonsEnabled, errorPanel>>
    /\ UNCHANGED <<auxVars, unitVars, buildVars, streamVars, popupOpen, streamBuild, port>>

\* the rest of startDownload: saveZip, loadTracking, the status, the error
\* panel, and in the finally block the controls
SaveDone(d) ==
    /\ downloads[d] = "saving"
    /\ downloads' = [downloads EXCEPT ![d] = "finished"]
    /\ \E saved \in BOOLEAN :
          errorPanel' = IF saved /\ lastFailedUrls = <<>> THEN "hidden" ELSE "shown"
    /\ buttonsEnabled' = TRUE
    /\ UNCHANGED <<auxVars, unitVars, buildVars, streamVars, popupOpen, lastFailedUrls, streamBuild, fallbackBuild,
                   port, tracked>>

\* The popup document is closed: its script and its ports end with it, the
\* builds of the background go on.
PopupClose ==
    /\ popupOpen
    /\ popupOpen' = FALSE
    /\ buttonsEnabled' = FALSE
    /\ errorPanel' = "hidden"
    /\ lastFailedUrls' = <<>>
    /\ downloads' = [d \in Sessions |->
                        IF downloads[d] \in {"stream", "fallback", "saving"}
                        THEN "gone" ELSE downloads[d]]
    /\ port' = [d \in Sessions |->
                   IF port[d] \in {"open", "disconnected"} THEN "closed" ELSE port[d]]
    /\ UNCHANGED <<auxVars, unitVars, buildVars, streamVars, streamBuild, fallbackBuild, tracked>>

\* The popup is opened: the module state is initialised, the controls are as
\* the document declares them.
PopupOpen ==
    /\ ~popupOpen
    /\ popupOpen' = TRUE
    /\ buttonsEnabled' = TRUE
    /\ errorPanel' = "hidden"
    /\ lastFailedUrls' = <<>>
    /\ UNCHANGED <<auxVars, unitVars, buildVars, streamVars, downloads, streamBuild, fallbackBuild, port, tracked>>

\* The context of the background ends while a port is open: its builds end
\* with it, the port disconnects, a pending MD_BUILD_ZIP request fails.
BackgroundStopped ==
    /\ \E d \in Sessions : port[d] = "open"
    /\ streamBuild' = [d \in Sessions |->
                          IF streamBuild[d] = "running" THEN "over" ELSE streamBuild[d]]
    /\ fallbackBuild' = [d \in Sessions |->
                            IF fallbackBuild[d] = "running" THEN "over" ELSE fallbackBuild[d]]
    /\ port' = [d \in Sessions |-> IF port[d] = "open" THEN "disconnected" ELSE port[d]]
    /\ downloads' = [d \in Sessions |->
                        IF downloads[d] = "fallback" THEN "finished" ELSE downloads[d]]
    /\ IF \E d \in Sessions : downloads[d] = "fallback"
       THEN /\ errorPanel' = "shown"
            /\ buttonsEnabled' = TRUE
       ELSE UNCHANGED <<errorPanel, buttonsEnabled>>
    /\ UNCHANGED <<auxVars, unitVars, buildVars, streamVars, popupOpen, lastFailedUrls, tracked>>

\* handlers.onDisconnect rejects; the catch block of buildZipStream sends
\* MD_BUILD_ZIP, which a new context of the background serves
StreamDisconnected(d) ==
    /\ port[d] = "disconnected"
    /\ downloads[d] = "stream"
    /\ port' = [port EXCEPT ![d] = "closed"]
    /\ downloads' = [downloads EXCEPT ![d] = "fallback"]
    /\ fallbackBuild' = [fallbackBuild EXCEPT ![d] = "running"]
    /\ UNCHANGED <<auxVars, unitVars, buildVars, streamVars, popupOpen, buttonsEnabled, errorPanel, lastFailedUrls,
                   streamBuild, tracked>>

\* the executions of buildZip in progress
BuildsInProgress ==
    {<<"stream", d>> : d \in {e \in Sessions : streamBuild[e] = "running"}}
        \cup {<<"fallback", d>> : d \in {e \in Sessions : fallbackBuild[e] = "running"}}

\* --------------------------------------------------------------- scenarios

\* the resources of the course page, in page order
Page == <<Folder, PlainFile(1), FragVariant, SlashVariant, PlainFile(2)>>

\* a page without links that differ only in fragment or trailing slash
PlainPage == <<Folder, PlainFile(1), PlainFile(2)>>

RECURSIVE SubSeqsOf(_)
SubSeqsOf(s) ==
    IF s = <<>> THEN {<<>>}
    ELSE LET rest == SubSeqsOf(Tail(s))
         IN rest \cup {<<s[1]>> \o t : t \in rest}

\* the selections of the popup: resources.filter(selected)
Selections(page) == {s \in SubSeqsOf(page) : Len(s) <= MaxSelected}

OldRecord(key) == StoredDownload(key, calculateHash(0), 0, <<"o", "l", "d">>)

Entry(key) == [key |-> key, val |-> OldRecord(key)]

\* persisted maps: empty; canonical keys only; keys of an older version, which did
\* not normalize the trailing slash
Stores ==
    { <<>>,
      <<Entry(Url(1)), Entry(Url(NDocs + 3))>>,
      <<Entry([Url(NDocs + 3) EXCEPT !.slash = TRUE]), Entry(Url(2))>>,
      <<Entry(Url(1)), Entry([Url(1) EXCEPT !.slash = TRUE])>> }

AllResponses == FailureResponses \cup HtmlResponses \cup {PlainBody(1)}

TrackingResponses == {PlainBody(1), PlainBody(2), NamedBody, RespThrow("TypeError")}

PoolResponses == {PlainBody(1), RespThrow("TypeError")}

InitBuildWith(selection, responseKinds, persisted) ==
    /\ sel = selection
    /\ kinds = responseKinds
    /\ store = persisted
    /\ store0 = persisted
    /\ writes = <<>>
    /\ pc = "idle"
    /\ chosen = <<>>
    /\ expPos = 0
    /\ expanded = <<>>
    /\ listed = <<>>
    /\ files = <<>>
    /\ tracking = <<>>
    /\ loaded = <<>>
    /\ idx = 0
    /\ runner = <<>>
    /\ resp = <<>>
    /\ failedUrls = <<>>
    /\ completed = 0
    /\ existingPaths = {}
    /\ zip = {}
    /\ errorsByType = [l \in ErrorLabels |-> 0]
    /\ events = <<>>
    /\ responses = <<>>

\* A build request is one of: a small selection and any persisted map, with
\* files that arrive with this or that content, or not at all; a small selection
\* with every kind of failing response; a long list of plain files; two folders
\* around a file.
BuildRequests ==
    \/ \E s \in Selections(Page), st \in Stores : InitBuildWith(s, TrackingResponses, st)
    \/ \E s \in Selections(PlainPage) : InitBuildWith(s, AllResponses, <<Entry(Url(1))>>)
    \/ \E n \in 0..NDocs, withFolder \in BOOLEAN :
          InitBuildWith((IF withFolder THEN <<Folder>> ELSE <<>>) \o [d \in 1..n |-> PlainFile(d)],
                        PoolResponses, <<Entry(Url(1))>>)
    \/ InitBuildWith(<<Folder, PlainFile(2), OtherFolder>>, PoolResponses, <<>>)

Init == BuildRequests /\ StreamIdle /\ NoSession /\ AuxIdle /\ UnitsIdle

Next ==
    \/ StartBuild
    \/ LoadTracking
    \/ FolderExpanded
    \/ \E w \in DOMAIN runner : FetchDone(w)
    \/ \E w \in DOMAIN runner : HashDone(w)
    \/ ZipDone
    \/ PersistDone
    \/ BuildReturns
    \/ DownloadDone
    \/ HandlerCatch

vars == <<buildVars, streamVars, sessionVars, unitVars, auxVars>>

Spec == Init /\ [][Next]_vars

\* ------------------------------------------------- properties of the build

\* the fetch stage of the build is over and buildZip has not thrown
FetchStageOver == pc \in {"zip", "persist", "telemetry", "download", "done"}

\* the tracking map has been persisted by the build
Persisted == pc \in {"telemetry", "download", "done"}

Archived(i) == \E e \in zip : e.file = i

\* a response that is a failed fetch: non-2xx status, timeout or abort, network
\* error, or an HTML body
IsFailedFetch(r) == r.kind \in {"status", "throw"} \/ BodyIsHtml(r)

Occurrences(seq, x) == Cardinality({j \in 1..Len(seq) : seq[j] = x})

\* C1: whatever subset F of the files fails to be fetched (status, timeout, network
\* error, HTML body), every file is attempted, failedUrls lists exactly the URLs of
\* F, each once, and the build completes with ok = true and successCount = N - |F|.
C1_PerFileIsolation ==
    LET N == Len(files)
        F == {i \in 1..N : IsFailedFetch(resp[i])}
    IN /\ FetchStageOver =>
            /\ \A i \in 1..N : resp[i].kind # "none"
            /\ \A i \in F : Occurrences(failedUrls, files[i].url) = 1
            /\ \A j \in 1..Len(failedUrls) : \E i \in F : files[i].url = failedUrls[j]
       /\ pc = "done" =>
            /\ responses[Len(responses)].ok
            /\ events[1].ok
            /\ events[1].fileCount = N - Cardinality(F)

\* C2: during the fetch stage at most 3 file fetches are in flight, and there are
\* never more runners than files.
C2_ConcurrencyBound ==
    LET inFlight == {w \in DOMAIN runner : runner[w].st \in {"fetch", "hash"}}
    IN /\ Cardinality(inFlight) <= 3
       /\ Len(runner) <= 3
       /\ Len(runner) <= Len(files)
       /\ \A v, w \in inFlight : v # w => runner[v].item # runner[w].item

\* three fetches in flight while more files wait for a runner
C2_Witness ==
    /\ pc = "fetch"
    /\ Cardinality({w \in DOMAIN runner : runner[w].st \in {"fetch", "hash"}}) = 3
    /\ idx < Len(files)
    /\ completed >= 1

\* C7: a file whose response has a success status and an HTML body (content type
\* text/html, or a body that begins with a doctype or an html tag), of any length,
\* is listed in failedUrls, is not in the archive and is not recorded in tracking.
C7_HtmlBodyRejected ==
    \A i \in 1..Len(files) :
        (BodyIsHtml(resp[i]) /\ FetchStageOver) =>
            /\ Occurrences(failedUrls, files[i].url) = 1
            /\ ~Archived(i)
            /\ \A j \in 1..Len(tracking) :
                  tracking[j].val.hash # calculateHash(resp[i].data)

\* the files archived in this build under identity key k
ArchivedUnder(k) == {i \in 1..Len(files) : Archived(i) /\ normalizeUrlKey(files[i].url) = k}

RecordOf(i) ==
    StoredDownload(normalizeUrlKey(files[i].url), calculateHash(resp[i].data), Now,
                   BaseName(files[i], resp[i]))

StoredAs(k) == {j \in 1..Len(store0) : normalizeUrlKey(store0[j].key) = k}

PersistWrites == {j \in 1..Len(writes) : writes[j].at = "persist"}

\* C10 as stated: a build that completes has written the tracking map exactly once,
\* after the fetch stage.
C10_SinglePersistAsStated ==
    pc = "done" =>
        /\ Len(writes) = 1
        /\ writes[1].at = "persist"

\* C10, amended: a build writes the tracking map once after the fetch stage has
\* finished (every file processed), never during the fetch stage; a build that
\* completes has made that write; the only other write is the one of the initial
\* load, made before the first fetch if and only if a stored key is not canonical.
C10_SinglePersist ==
    /\ Cardinality(PersistWrites) <= 1
    /\ \A j \in PersistWrites :
          /\ j = Len(writes)
          /\ writes[j].completed = writes[j].total
          /\ writes[j].total = Len(files)
    /\ pc \in {"idle", "load", "expand", "fetch", "zip", "persist"} => PersistWrites = {}
    /\ Persisted => Cardinality(PersistWrites) = 1
    /\ \A j \in 1..Len(writes) : writes[j].at = "load" => j = 1
    /\ pc \notin {"idle", "load", "failed"} =>
          ((\E j \in 1..Len(writes) : writes[j].at = "load")
              <=> (\E j \in 1..Len(store0) : store0[j].key # normalizeUrlKey(store0[j].key)))

\* a completed build of several files that wrote once, without a migration
C10_Witness ==
    /\ pc = "done"
    /\ Len(files) >= 2
    /\ completed = Len(files)
    /\ Len(writes) = 1

\* the place of a position of buildZip in the order of the phases: before
\* the build, expanding, fetching, serializing, persisting, done, failed
PhaseRank(p) ==
    CASE p \in {"idle", "load"} -> 0
      [] p = "expand" -> 1
      [] p = "fetch" -> 2
      [] p = "zip" -> 3
      [] p = "persist" -> 4
      [] p \in {"telemetry", "download", "done"} -> 5
      [] OTHER -> 6

\* what each phase finds done: no fetch has started while folders are
\* expanded, every folder has been expanded when files are fetched, every
\* file has been processed when the archive is serialized
PhasesInOrder ==
    /\ pc \in {"idle", "load", "expand"} =>
          /\ runner = <<>>
          /\ files = <<>>
          /\ zip = {}
    /\ pc = "expand" => expPos <= Len(chosen) /\ chosen[expPos].type = "folder"
    /\ PhaseRank(pc) \in 2..5 =>
          /\ expPos > Len(chosen)
          /\ \A i \in 1..Len(files) : files[i].type = "file"
    /\ PhaseRank(pc) \in 3..5 =>
          /\ \A w \in DOMAIN runner : runner[w].st = "end"
          /\ \A i \in 1..Len(files) : resp[i].kind # "none"
          /\ completed = Len(files)
    /\ \A k \in 1..Len(responses) :
          responses[k].ok => (writes # <<>> /\ writes[Len(writes)].at = "persist")

\* the steps of a build go forward in the order of the phases, the persist
\* follows the serialization, the result follows the persist
StepsInOrder ==
    /\ PhaseRank(pc') >= PhaseRank(pc)
    /\ pc' = "persist" => pc \in {"zip", "persist"}
    /\ pc' = "telemetry" => pc \in {"persist", "telemetry"}
    /\ pc' \in {"download", "done"} => pc \in {"telemetry", "download", "done"}
    /\ pc' = "expand" => UNCHANGED <<runner, resp, zip, files>>
    /\ files' # files => pc \in {"load", "expand"}

\* C20 (as stated): the phases are in order, and the stored tracking map is
\* written only after the archive has been serialized.
C20_PhaseOrderAsStated ==
    /\ PhasesInOrder
    /\ PhaseRank(pc) <= 4 => (writes = <<>> /\ store = store0)

\* C20 (amended): the phases expanding, fetching, serializing, persisting,
\* done occur in this order; all folders are expanded before the first fetch
\* starts, serialization starts after every file has been processed, the map
\* built by the build is persisted after serialization and the result is
\* returned after that persist; the one write of the tracking map before that
\* is the migration of stored keys by the initial load, before expansion.
C20_PhaseOrder ==
    /\ [](/\ PhasesInOrder
          /\ PhaseRank(pc) <= 4 =>
                \/ writes = <<>> /\ store = store0
                \/ /\ Len(writes) = 1
                   /\ writes[1].at = "load"
                   /\ store = Migrated(store0)
                   /\ store # store0
                   /\ pc # "idle")
    /\ [][/\ StepsInOrder
          /\ store' # store => pc \in {"load", "persist"}
          /\ (store' # store /\ pc = "load") => store' = Migrated(store)]_vars

\* a build with a folder and two files that migrated the stored keys when it
\* loaded them, persisted after serialization and returned
C20_Witness ==
    /\ pc = "done"
    /\ \E i \in 1..Len(chosen) : chosen[i].type = "folder"
    /\ Len(files) >= 2
    /\ Len(writes) = 2
    /\ writes[1].at = "load"
    /\ writes[2].at = "persist"

\* the build was answered with the error of this text
AnsweredWith(text) == \E k \in 1..Len(responses) : responses[k].error = text

\* the stored map is the map stored before the build, with its keys migrated
\* by the initial load
StoreAsLoaded == store = (IF MigrationChanged(store0) THEN Migrated(store0) ELSE store0)

\* C21: when the serialization of the archive fails, the request is answered
\* with ok:false and the error text and without archive bytes, the stored
\* tracking map has none of the entries of this build, and a port handler
\* whose build raised posts the error message and neither meta nor chunks.
C21_SerializationFailure ==
    /\ \A k \in 1..Len(responses) :
          responses[k].error = "serialization failed" =>
              /\ k = 1
              /\ Len(responses) = 1
              /\ ~responses[k].ok
              /\ ~responses[k].hasBuffer
              /\ responses[k].zipBuffer = {}
              /\ events = <<Complete(FALSE, 0, 0)>>
              /\ pc = "failed"
              /\ StoreAsLoaded
              /\ \A j \in 1..Len(writes) : writes[j].at # "persist"
    /\ (sPc \in {"catch", "finished"} /\ caught /\ zipLen = 0) =>
          \A k \in 1..Len(sent) : sent[k].type = "MD_ZIP_STREAM_ERROR"

\* the serialization failed in a build that had archived a file and recorded
\* it in its tracking map
C21_Witness ==
    /\ pc = "failed"
    /\ AnsweredWith("serialization failed")
    /\ zip # {}
    /\ tracking # store
    /\ \E i \in 1..Len(files) : MapHas(tracking, normalizeUrlKey(files[i].url))

\* C22: when the final write of the tracking map fails, the build is answered
\* with ok:false, also when every file was fetched and archived; a build that
\* is answered with ok:true has stored its tracking map; a port handler whose
\* build raised ends with the error message as the one message it posted.
C22_StorageFailure ==
    /\ \A k \in 1..Len(responses) :
          responses[k].error = "storage write failed" =>
              /\ ~responses[k].ok
              /\ ~responses[k].hasBuffer
              /\ Len(responses) = 1
              /\ events = <<Complete(FALSE, 0, 0)>>
              /\ pc = "failed"
              /\ completed = Len(files)
    /\ \A k \in 1..Len(responses) :
          responses[k].ok =>
              /\ store = tracking
              /\ writes # <<>>
              /\ writes[Len(writes)].at = "persist"
    /\ (sPc = "finished" /\ zipLen = 0 /\ sent # <<>>) => sent = <<ErrorMessage>>

\* the write of the tracking map failed in a build that had fetched and
\* archived every one of its files
C22_Witness ==
    /\ pc = "failed"
    /\ AnsweredWith("storage write failed")
    /\ Len(files) >= 2
    /\ failedUrls = <<>>
    /\ \A i \in 1..Len(files) : Archived(i)
    /\ store # tracking

\* the listing pages that could not be fetched: fetch or the read of the
\* body rejected, or the page was answered with an error status
FailedListings == {j \in 1..Len(listed) : ~listed[j].ok \/ listed[j].status \notin 200..299}

\* the files that expandFolderResource made of the links of this folder
ChildrenOf(folderUrl) ==
    {i \in 1..Len(expanded) :
        \E c \in 1..Len(chosen) :
            /\ chosen[c].url = folderUrl
            /\ chosen[c].type = "folder"
            /\ expanded[i].path = chosen[c].path
            /\ expanded[i].id # chosen[c].id
            /\ \A d \in 1..Len(chosen) : expanded[i] # chosen[d]}

\* C23: a folder whose listing page could not be fetched contributes no
\* files, folder_expand_error counts these folders, no folder is in
\* failedUrls or among the files, every other selected resource is expanded
\* and fetched, and the build is answered with ok.
C23_FolderFailureNonFatal ==
    /\ errorsByType["folder_expand_error"] = Cardinality(FailedListings)
    /\ \A j \in FailedListings : ChildrenOf(listed[j].folder) = {}
    /\ \A i \in 1..Len(files) : files[i].type = "file"
    /\ \A j \in 1..Len(listed), k \in 1..Len(failedUrls) : failedUrls[k] # listed[j].folder
    /\ (pc = "fetch" \/ FetchStageOver) =>
          /\ Len(listed) = Cardinality({c \in 1..Len(chosen) : chosen[c].type = "folder"})
          /\ \A c \in 1..Len(chosen) :
                chosen[c].type = "file" =>
                    \E i \in 1..Len(files) : normalizeUrl(files[i].url) = normalizeUrl(chosen[c].url)
    /\ FetchStageOver => \A i \in 1..Len(files) : resp[i].kind # "none"
    /\ (pc = "done" /\ Len(listed) > 0) => responses[Len(responses)].ok

\* the resources of expanded that were not selected: the children of folders
Children == {i \in 1..Len(expanded) : \A c \in 1..Len(chosen) : expanded[i] # chosen[c]}

FoldersChosen == {c \in 1..Len(chosen) : chosen[c].type = "folder"}

C32_NoIdentityTwice ==
    (pc = "fetch" \/ FetchStageOver) =>
        \A i, j \in 1..Len(files) :
            i # j => normalizeUrlKey(files[i].url) # normalizeUrlKey(files[j].url)

\* the files whose worker has returned
Finished ==
    {i \in 1..Len(files) :
        /\ i <= idx
        /\ \A w \in DOMAIN runner : runner[w].st = "end" \/ runner[w].item # i}

\* C33: every fetch-phase progress event has 0 <= current <= total, the
\* current values never decrease, the counter has been incremented once for
\* every file whose worker returned, whatever the outcome of the file, and
\* once the fetch stage is over the last event has current = total.
C33_ProgressCounter ==
    /\ \A k \in 1..Len(progress) :
          /\ 0 <= progress[k].current
          /\ progress[k].current <= progress[k].total
          /\ progress[k].total = Len(files)
    /\ \A k \in 1..(Len(progress) - 1) : progress[k].current <= progress[k + 1].current
    /\ (pc = "fetch" \/ FetchStageOver) => completed = Cardinality(Finished)
    /\ (FetchStageOver /\ Len(files) > 0) =>
          /\ completed = Len(files)
          /\ progress[Len(progress)].current = Len(files)

\* four files were fetched by three runners: some failed, some were archived
C33_Witness ==
    /\ FetchStageOver
    /\ Len(files) >= 4
    /\ failedUrls # <<>>
    /\ zip # {}
    /\ Len(progress) = 2 * Len(files)

\* C34: a request is answered by one MD_COMPLETE event and one call of
\* sendResponse, and the ok flag of the event is the ok flag of the response.
C34_SingleTerminalEvent ==
    /\ Len(events) <= 1
    /\ Len(responses) <= 1
    /\ pc \in {"done", "failed"} =>
          /\ Len(events) = 1
          /\ Len(responses) = 1
          /\ events[1].ok = responses[1].ok

\* ------------------------------------------------- the build under fairness

\* the server answers with a body, or stalls before or after the headers
StallResponses == {PlainBody(1), RespStall("headers"), RespStall("body")}

InitStall ==
    /\ \E s \in Selections(Page) : InitBuildWith(s, StallResponses, <<>>)
    /\ StreamIdle /\ NoSession /\ AuxIdle /\ UnitsIdle

\* every step the background can take is taken in the end
SpecBuildFair == InitStall /\ [][Next]_vars /\ WF_vars(Next)

\* C19: every build eventually completes: it returns a result or an error.
C19_BuildTerminates == <>(pc \in {"done", "failed"})

\* the URL without its fragment
Defragmented(url) == [url EXCEPT !.frag = FALSE]

\* C17: the identity key of a URL with a fragment is the identity key of the
\* URL without it, for the key of deduplication and for the tracking key; of
\* the resources of a request that differ only in fragment one is left in
\* files, and the tracking map has no two keys that differ only in fragment.
C17_FragmentIdentity ==
    /\ \A i \in 1..Len(sel) :
          /\ normalizeUrl([sel[i].url EXCEPT !.frag = TRUE]) = normalizeUrl(Defragmented(sel[i].url))
          /\ normalizeUrlKey([sel[i].url EXCEPT !.frag = TRUE])
                = normalizeUrlKey(Defragmented(sel[i].url))
    /\ (pc = "fetch" \/ FetchStageOver) =>
          /\ \A i, j \in 1..Len(files) :
                i # j => Defragmented(files[i].url) # Defragmented(files[j].url)
          /\ \A i \in 1..Len(sel) :
                sel[i].type = "file" =>
                    \E j \in 1..Len(files) : Defragmented(files[j].url) = Defragmented(sel[i].url)
          /\ \A a, b \in 1..Len(tracking) :
                a # b => Defragmented(tracking[a].key) # Defragmented(tracking[b].key)
          /\ \A i \in 1..Len(files) :
                (Archived(i) /\ Occurrences(failedUrls, files[i].url) = 0 /\ FetchStageOver) =>
                    MapHas(tracking, normalizeUrlKey(Defragmented(files[i].url)))

\* a request for a file and for the same file linked with a fragment has been
\* built: one file was fetched, archived and recorded under the key of both
C17_Witness ==
    /\ pc = "done"
    /\ sel = <<PlainFile(1), FragVariant>>
    /\ Len(files) = 1
    /\ Archived(1)
    /\ MapHas(tracking, normalizeUrlKey(FragVariant.url))
    /\ normalizeUrlKey(FragVariant.url) = normalizeUrlKey(PlainFile(1).url)

\* ------------------------------------------- the stream as a specification

\* no build request is pending while the stream is looked at
NoBuild == InitBuildWith(<<>>, {}, <<>>)

InitStream == NoBuild /\ StreamIdle /\ NoSession /\ AuxIdle /\ UnitsIdle

NextStream ==
    \/ StreamRequest
    \/ StreamBuildReturns
    \/ StreamBuildRaises
    \/ PostMeta
    \/ PostChunk
    \/ PostDone
    \/ PostError
    \/ PortDisconnects
    \/ \E j \in DOMAIN chan : Deliver(j)
    \/ OnDisconnect
    \/ PopupCloses

SpecStream == InitStream /\ [][NextStream]_vars

\* ----------------------------------------------- properties of the stream

IsChunk(m) == m.type = "MD_ZIP_STREAM_CHUNK"

IsTerminal(m) == m.type \in {"MD_ZIP_STREAM_DONE", "MD_ZIP_STREAM_ERROR"}

ChunksOf(seq) == SelectSeq(seq, IsChunk)

DonePosted == \E k \in DOMAIN sent : sent[k].type = "MD_ZIP_STREAM_DONE"

\* n = ceil(total / size)
IsCeil(n, total, size) == n * size >= total /\ (n - 1) * size < total

RECURSIVE SumOfLengths(_)
SumOfLengths(seq) ==
    IF seq = <<>> THEN 0 ELSE (Head(seq).hi - Head(seq).lo) + SumOfLengths(Tail(seq))

\* the chunk messages the receiver handled, in the order of their arrival
ArrivedChunks == ChunksOf(rLog)

\* C3: once the stream is complete the builder has sent exactly
\* ceil(totalBytes / C) chunk messages, and a receiver that has handled meta
\* and then all of them, in any order, holds in its buffer of totalBytes
\* bytes exactly the bytes of the archive.
C3_TransferRoundTrip ==
    /\ DonePosted => IsCeil(Len(ChunksOf(sent)), zipLen, ZIP_CHUNK_SIZE)
    /\ (DonePosted /\ buffer.allocated /\ Len(ArrivedChunks) = Len(ChunksOf(sent)))
          => BufferIsArchive

\* all chunks of an archive of several chunks, the last one partial, have
\* arrived in another order than they were sent
C3_Witness ==
    /\ DonePosted
    /\ buffer.allocated
    /\ Len(ChunksOf(sent)) >= 3
    /\ Len(ArrivedChunks) = Len(ChunksOf(sent))
    /\ zipLen % ZIP_CHUNK_SIZE # 0
    /\ ArrivedChunks[1].index > ArrivedChunks[2].index
    /\ BufferIsArchive

\* C4: the k-th chunk message sent carries the index k-1; no chunk is longer
\* than 1 MiB; every chunk but the last of the stream has exactly chunkSize
\* bytes and the last has between 1 and chunkSize; when the stream is complete
\* the indexes are those of 0..totalChunks-1 and the lengths sum to the
\* totalBytes of meta.
C4_ChunkShape ==
    LET chunks == ChunksOf(sent)
        len(k) == chunks[k].hi - chunks[k].lo
    IN  /\ \A k \in DOMAIN chunks :
              /\ chunks[k].index = k - 1
              /\ len(k) <= 1048576
              /\ len(k) >= 1
              /\ len(k) <= sent[1].chunkSize
              /\ chunks[k].index < sent[1].totalChunks - 1 => len(k) = sent[1].chunkSize
        /\ DonePosted =>
              /\ Len(chunks) = sent[1].totalChunks
              /\ SumOfLengths(chunks) = sent[1].totalBytes

\* a complete stream of three chunks whose last chunk has one byte
C4_Witness ==
    /\ DonePosted
    /\ Len(ChunksOf(sent)) = 3
    /\ sent[4].hi - sent[4].lo = 1
    /\ sent[2].hi - sent[2].lo = ZIP_CHUNK_SIZE

WrittenIndexes ==
    {i \in 0..(totalChunks - 1) :
        \E j \in DOMAIN buffer.writes : buffer.writes[j].at = i * chunkSize}

\* C6: when buildZipStream has resolved, the message it handled last is done,
\* meta was handled before, every chunk of 0..totalChunks-1 has been written
\* into the buffer, and the buffer holds the whole archive.
C6_ReceiverCompleteness ==
    rState = "resolved" =>
        /\ rLog[Len(rLog)].type = "MD_ZIP_STREAM_DONE"
        /\ rLog[1].type = "MD_ZIP_STREAM_META"
        /\ buffer.allocated
        /\ receivedChunks = totalChunks
        /\ WrittenIndexes = 0..(totalChunks - 1)
        /\ BufferIsArchive

\* the receiver has resolved with an archive of several chunks
C6_Witness ==
    /\ rState = "resolved"
    /\ totalChunks >= 2
    /\ receivedChunks = totalChunks

\* ------------------------------------------ the popup as a specification

InitSession == NoBuild /\ StreamIdle /\ NoSession /\ AuxIdle /\ UnitsIdle

NextSession ==
    \/ ClickDownload
    \/ ClickRetry
    \/ ClickReset
    \/ \E d \in Sessions : StreamBuildOver(d)
    \/ \E d \in Sessions : FallbackBuildOver(d)
    \/ \E d \in Sessions : SaveDone(d)
    \/ PopupClose
    \/ PopupOpen
    \/ BackgroundStopped
    \/ \E d \in Sessions : StreamDisconnected(d)

SpecSession == InitSession /\ [][NextSession]_vars

\* C9: at most one execution of buildZip is in progress at any time.
C9_SingleBuildInFlight == Cardinality(BuildsInProgress) <= 1

\* the stream build and the fallback build of one startDownload do not overlap
StreamThenFallback ==
    \A d \in Sessions : ~(streamBuild[d] = "running" /\ fallbackBuild[d] = "running")

\* the builds one popup document has started do not overlap
OneBuildPerPopup ==
    Cardinality({b \in BuildsInProgress : downloads[b[2]] # "gone"}) <= 1

\* C25: the build is requested through MD_BUILD_ZIP only when the 'md-zip'
\* channel failed (it could not be connected, or it disconnected); a
\* startDownload whose port received the error message of the builder shows
\* the error and does not have the build run again.
C25_FallbackTrigger ==
    \A d \in Sessions :
        /\ fallbackBuild[d] # "none" => port[d] \in {"none", "closed", "disconnected"}
        /\ port[d] = "errored" =>
              /\ fallbackBuild[d] = "none"
              /\ downloads[d] \in {"finished", "gone"}

\* --------------------------------------------- getTracking called on its own

\* every URL of two documents, with and without trailing slash and fragment
KeyPool == {[doc |-> d, slash |-> sl, frag |-> fr] : d \in 1..2, sl \in BOOLEAN, fr \in BOOLEAN}

\* the maps storage may hold: distinct keys, written by this or an older version
StoredMaps ==
    {[i \in 1..Len(ks) |-> Entry(ks[i])] :
        ks \in {q \in UNION {[1..n -> KeyPool] : n \in 0..MaxStored} :
                   \A a, b \in 1..Len(q) : a # b => q[a] # q[b]}}

InitLoad ==
    /\ NoBuild /\ StreamIdle /\ NoSession /\ AuxIdle
    /\ unitPc = "load"
    /\ kvStore \in StoredMaps
    /\ loads = <<>>
    /\ sanIn = <<>> /\ sanOut = <<>> /\ sanAgain = <<>>
    /\ registry = {} /\ calls = <<>>
    /\ dedIn = <<>> /\ dedOut = <<>> /\ dedAgain = <<>>

\* onMessage MD_GET_TRACKING: getTracking runs from storage.get to its return
GetTracking ==
    /\ unitPc = "load"
    /\ Len(loads) < MaxLoads
    /\ LET migrated == Migrated(kvStore)
           changed == MigrationChanged(kvStore)
       IN /\ loads' = Append(loads, [before |-> kvStore, returned |-> migrated,
                                     writes |-> IF changed THEN 1 ELSE 0])
          /\ kvStore' = IF changed THEN migrated ELSE kvStore
    /\ UNCHANGED <<auxVars, buildVars, streamVars, sessionVars, unitPc, sanIn, sanOut, sanAgain,
                   registry, calls, dedIn, dedOut, dedAgain>>

NextLoad == GetTracking

SpecLoad == InitLoad /\ [][NextLoad]_vars

\* every key of the map is in canonical normalized form
Canonical(map) == \A i \in 1..Len(map) : map[i].key = normalizeUrlKey(map[i].key)

\* C11: a load of a map whose keys are all canonical writes nothing; a load of a
\* map with a non-canonical key writes once, and what it writes and returns has
\* canonical keys only; the load after a migrating load writes nothing and
\* returns the same map.
C11_MigrationIdempotence ==
    \A j \in 1..Len(loads) :
        /\ Canonical(loads[j].before) => loads[j].writes = 0
        /\ ~Canonical(loads[j].before) =>
              /\ loads[j].writes = 1
              /\ Canonical(loads[j].returned)
        /\ (j > 1 /\ loads[j - 1].writes = 1) =>
              /\ loads[j].before = loads[j - 1].returned
              /\ loads[j].writes = 0
              /\ loads[j].returned = loads[j - 1].returned

\* a migrating load that merged two stored keys, followed by a load
C11_Witness ==
    /\ Len(loads) >= 2
    /\ loads[1].writes = 1
    /\ Len(loads[1].returned) < Len(loads[1].before)
    /\ loads[2].writes = 0

\* ----------------------------------------- ensureUniquePath called on its own

\* 'Week 1/file.pdf'
WeekFile == <<"W", "e", "e", "k", " ", "1", "/", "f", "i", "l", "e", ".", "p", "d", "f">>

\* The entry paths asked for: a file in a folder, the name its first repeat
\* gets, a file without extension, and that file in a folder whose name has a
\* dot, as the section '1. Intro' has.
Candidates ==
    { WeekFile,
      <<"W", "e", "e", "k", " ", "1", "/", "f", "i", "l", "e", " ", "(", "1", ")", ".", "p", "d", "f">>,
      <<"r", "e", "a", "d", "m", "e">>,
      <<"1", ".", " ", "I", "n", "t", "r", "o", "/", "r", "e", "a", "d", "m", "e">> }

InitPaths ==
    /\ NoBuild /\ StreamIdle /\ NoSession /\ AuxIdle
    /\ unitPc = "paths"
    /\ registry = {}
    /\ calls = <<>>
    /\ sanIn = <<>> /\ sanOut = <<>> /\ sanAgain = <<>>
    /\ dedIn = <<>> /\ dedOut = <<>> /\ dedAgain = <<>>
    /\ kvStore = <<>> /\ loads = <<>>

\* ensureUniquePath(existing, fullPath): the path is added to the registry and
\* returned
UniquePath ==
    /\ unitPc = "paths"
    /\ Len(calls) < MaxCalls
    /\ \E c \in Candidates :
          LET path == ensureUniquePath(registry, c)
          IN /\ registry' = registry \cup {path}
             /\ calls' = Append(calls, [candidate |-> c, before |-> registry, path |-> path])
    /\ UNCHANGED <<auxVars, buildVars, streamVars, sessionVars, unitPc, sanIn, sanOut, sanAgain,
                   dedIn, dedOut, dedAgain, kvStore, loads>>

NextPaths == UniquePath

SpecPaths == InitPaths /\ [][NextPaths]_vars

\* the registry as the j-th call left it
RegistryAfter(j) == IF j < Len(calls) THEN calls[j + 1].before ELSE registry

\* C12: every path ensureUniquePath returns differs from all paths returned
\* before on that registry, is in the registry afterwards, and the registry
\* has grown by exactly that one entry; an unused candidate is returned
\* unchanged; 'Week 1/file.pdf' asked for three times gives 'Week 1/file.pdf',
\* 'Week 1/file (1).pdf', 'Week 1/file (2).pdf'.
C12_PathUniqueness ==
    /\ \A j \in 1..Len(calls) :
          /\ \A i \in 1..(j - 1) : calls[i].path # calls[j].path
          /\ calls[j].path \notin calls[j].before
          /\ RegistryAfter(j) = calls[j].before \cup {calls[j].path}
          /\ Cardinality(RegistryAfter(j)) = Cardinality(calls[j].before) + 1
          /\ calls[j].candidate \notin calls[j].before => calls[j].path = calls[j].candidate
    /\ (Len(calls) >= 3 /\ \A j \in 1..3 : calls[j].candidate = WeekFile) =>
          /\ calls[1].path = WeekFile
          /\ calls[2].path = <<"W", "e", "e", "k", " ", "1", "/", "f", "i", "l", "e",
                               " ", "(", "1", ")", ".", "p", "d", "f">>
          /\ calls[3].path = <<"W", "e", "e", "k", " ", "1", "/", "f", "i", "l", "e",
                               " ", "(", "2", ")", ".", "p", "d", "f">>

\* 'Week 1/file.pdf' was asked for three times, after the name of its first
\* repeat had been taken
C12_Witness ==
    /\ Len(calls) = 4
    /\ calls[1].candidate # WeekFile
    /\ calls[1].path = <<"W", "e", "e", "k", " ", "1", "/", "f", "i", "l", "e",
                         " ", "(", "1", ")", ".", "p", "d", "f">>
    /\ \A j \in 2..4 : calls[j].candidate = WeekFile
    /\ calls[3].path # calls[1].path

\* the candidate with ' (i)' before the extension of its file name
CounterBeforeExtension(candidate, i) ==
    LET slash == LastIndexOf(candidate, "/")
        folder == SubSeq(candidate, 1, slash)
        name == SubSeq(candidate, slash + 1, Len(candidate))
        dot == LastIndexOf(name, ".")
        stem == IF dot > 0 THEN SubSeq(name, 1, dot - 1) ELSE name
        extension == IF dot > 0 THEN SubSeq(name, dot, Len(name)) ELSE <<>>
    IN folder \o stem \o <<" ", "(">> \o ToDecimal(i) \o <<")">> \o extension

\* C13: for a candidate that is already used, ensureUniquePath returns the
\* candidate with ' (i)' immediately before the extension of the file name, or
\* at its end when the file name has none, for the smallest i >= 1 whose
\* result is unused; the folder part is unchanged.
C13_CounterPlacement ==
    \A j \in 1..Len(calls) :
        calls[j].candidate \in calls[j].before =>
            \E i \in 1..MaxCalls :
                /\ calls[j].path = CounterBeforeExtension(calls[j].candidate, i)
                /\ \A h \in 1..(i - 1) :
                      CounterBeforeExtension(calls[j].candidate, h) \in calls[j].before

\* ----------------------------------------- sanitizeFileName called on its own

\* the characters the end of a name is made of: a letter, the whitespace
\* characters space, no-break space and tab, and an illegal character
TailChars == {"a", " ", "nbsp", "\t", "/"}

Tails == UNION {[1..n -> TailChars] : n \in 0..MaxTail}

\* a run of n letters
Letters(n) == [i \in 1..n |-> "b"]

\* 'a/b:c*?"<>|'
IllegalName == <<"a", "/", "b", ":", "c", "*", "?", "\"", "<", ">", "|">>

\* The names: short ones, and ones that reach the limit of 180 characters
\* inside their varied end, so that the cut falls before, on and after
\* whitespace.
Names ==
    {Letters(n) \o t : n \in {0, MaxNameLen - 2, MaxNameLen - 1}, t \in Tails}
        \cup {IllegalName, <<"\n">>, <<"\\", "\n", "a">>}

InitSanitize ==
    /\ NoBuild /\ StreamIdle /\ NoSession /\ AuxIdle
    /\ unitPc = "sanitize"
    /\ sanIn \in Names
    /\ sanOut = <<>> /\ sanAgain = <<>>
    /\ registry = {} /\ calls = <<>>
    /\ dedIn = <<>> /\ dedOut = <<>> /\ dedAgain = <<>>
    /\ kvStore = <<>> /\ loads = <<>>

\* sanitizeFileName(name)
SanitizeOnce ==
    /\ unitPc = "sanitize"
    /\ sanOut' = sanitizeFileName(sanIn)
    /\ unitPc' = "sanitized"
    /\ UNCHANGED <<auxVars, buildVars, streamVars, sessionVars, sanIn, sanAgain, registry, calls,
                   dedIn, dedOut, dedAgain, kvStore, loads>>

\* sanitizeFileName(sanitizeFileName(name))
SanitizeAgain ==
    /\ unitPc = "sanitized"
    /\ sanAgain' = sanitizeFileName(sanOut)
    /\ unitPc' = "resanitized"
    /\ UNCHANGED <<auxVars, buildVars, streamVars, sessionVars, sanIn, sanOut, registry, calls,
                   dedIn, dedOut, dedAgain, kvStore, loads>>

NextSanitize == SanitizeOnce \/ SanitizeAgain

SpecSanitize == InitSanitize /\ [][NextSanitize]_vars

\* C14: sanitizeFileName(sanitizeFileName(s)) = sanitizeFileName(s) for every
\* name s, also for names longer than 180 characters and names whose cut at
\* 180 characters falls on whitespace.
C14_SanitizeIdempotent == unitPc = "resanitized" => sanAgain = sanOut

\* a name of more than 180 characters whose 180th character is a space after
\* a letter has been sanitized twice
C14_Witness ==
    /\ unitPc = "resanitized"
    /\ Len(sanIn) > MaxNameLen
    /\ sanIn[MaxNameLen] = " "
    /\ sanIn[MaxNameLen - 1] \notin WhitespaceChars
    /\ Len(sanOut) = MaxNameLen - 1

\* C15: the result of sanitizeFileName contains none of \ / : * ? " < > | and
\* no control character; of a name without spaces that is not longer than the
\* limit each such character is replaced by one '_' and every other character
\* is kept; 'a/b:c*?"<>|' becomes 'a_b_c______'.
C15_IllegalReplaced ==
    unitPc # "sanitize" =>
        /\ \A i \in 1..Len(sanOut) : sanOut[i] \notin IllegalChars \cup ControlChars
        /\ (sanIn # <<>> /\ Len(sanIn) <= MaxNameLen
                /\ \A i \in 1..Len(sanIn) : sanIn[i] \notin {" ", "nbsp"}) =>
              /\ Len(sanOut) = Len(sanIn)
              /\ \A i \in 1..Len(sanIn) :
                    sanOut[i] = IF sanIn[i] \in {"\\", "/", ":", "*", "?", "\"", "<", ">", "|",
                                                 "\t", "\n"}
                                THEN "_" ELSE sanIn[i]
        /\ sanIn = IllegalName =>
              sanOut = <<"a", "_", "b", "_", "c", "_", "_", "_", "_", "_", "_">>

\* 'a/b:c*?"<>|' has been sanitized
C15_Witness ==
    /\ unitPc = "sanitized"
    /\ sanIn = IllegalName
    /\ sanOut = <<"a", "_", "b", "_", "c", "_", "_", "_", "_", "_", "_">>

\* what holds of every result: not empty, at most 180 characters, no
\* whitespace at its ends, no two whitespace characters in a row
WithinBounds(out) ==
    /\ out # <<>>
    /\ Len(out) <= 180
    /\ out[1] \notin WhitespaceChars
    /\ out[Len(out)] \notin WhitespaceChars
    /\ \A i \in 1..(Len(out) - 1) :
          ~(out[i] \in WhitespaceChars /\ out[i + 1] \in WhitespaceChars)

\* C16 (as stated): every result is within the bounds, and the result for the
\* empty string and for every string of whitespace characters only is 'file'.
C16_SanitizeBounds ==
    unitPc # "sanitize" =>
        /\ WithinBounds(sanOut)
        /\ (\A i \in 1..Len(sanIn) : sanIn[i] \in WhitespaceChars) =>
              sanOut = <<"f", "i", "l", "e">>

\* C16 (amended): every result is within the bounds, and the result for the
\* empty string and for every string of whitespace characters that are not
\* control characters is 'file'; a tab or a line break is replaced by '_'
\* before whitespace is looked at.
C16_SanitizeBoundsAmended ==
    unitPc # "sanitize" =>
        /\ WithinBounds(sanOut)
        /\ (\A i \in 1..Len(sanIn) : sanIn[i] \in WhitespaceChars \ ControlChars) =>
              sanOut = <<"f", "i", "l", "e">>
        /\ (sanIn # <<>> /\ Len(sanIn) <= MaxNameLen
                /\ \A i \in 1..Len(sanIn) : sanIn[i] \in ControlChars) =>
              sanOut = [i \in 1..Len(sanIn) |-> "_"]

\* a string of spaces and no-break spaces has been sanitized to 'file'
C16_Witness ==
    /\ unitPc = "sanitized"
    /\ Len(sanIn) >= 2
    /\ \A i \in 1..Len(sanIn) : sanIn[i] \in {" ", "nbsp"}
    /\ sanOut = <<"f", "i", "l", "e">>

\* ----------------------------------------- dedupeResources called on its own

\* the resources a list is made of: two files, and the first file linked
\* with a fragment and with a trailing slash
Linked == {PlainFile(1), FragVariant, SlashVariant, PlainFile(2)}

ResourceLists == UNION {[1..n -> Linked] : n \in 0..MaxList}

InitDedupe ==
    /\ NoBuild /\ StreamIdle /\ NoSession /\ AuxIdle
    /\ unitPc = "dedupe"
    /\ dedIn \in ResourceLists
    /\ dedOut = <<>> /\ dedAgain = <<>>
    /\ sanIn = <<>> /\ sanOut = <<>> /\ sanAgain = <<>>
    /\ registry = {} /\ calls = <<>>
    /\ kvStore = <<>> /\ loads = <<>>

\* dedupeResources(resources)
DedupeOnce ==
    /\ unitPc = "dedupe"
    /\ dedOut' = dedupeResources(dedIn)
    /\ unitPc' = "deduped"
    /\ UNCHANGED <<auxVars, buildVars, streamVars, sessionVars, sanIn, sanOut, sanAgain, registry, calls,
                   dedIn, dedAgain, kvStore, loads>>

\* dedupeResources(dedupeResources(resources))
DedupeAgain ==
    /\ unitPc = "deduped"
    /\ dedAgain' = dedupeResources(dedOut)
    /\ unitPc' = "rededuped"
    /\ UNCHANGED <<auxVars, buildVars, streamVars, sessionVars, sanIn, sanOut, sanAgain, registry, calls,
                   dedIn, dedOut, kvStore, loads>>

NextDedupe == DedupeOnce \/ DedupeAgain

SpecDedupe == InitDedupe /\ [][NextDedupe]_vars

\* the positions of the input that hold the first resource of their key
FirstOfKey ==
    {i \in 1..Len(dedIn) :
        \A j \in 1..(i - 1) : normalizeUrl(dedIn[j].url) # normalizeUrl(dedIn[i].url)}

RetryClicked ==
    /\ pc = "done"
    /\ ~retryOf.retry
    /\ failedUrls # <<>>
    /\ LET lastFailedUrls0 == responses[Len(responses)].failedUrls
           Includes(r) == \E k \in 1..Len(lastFailedUrls0) : lastFailedUrls0[k] = r.url
           retryResources == SelectSeq(Page, Includes)
       IN /\ retryOf' = [retry |-> TRUE, failed |-> lastFailedUrls0,
                         archived |-> {files[i].url : i \in {h \in 1..Len(files) :
                                          Archived(h) /\ Occurrences(failedUrls, files[h].url) = 0}}]
          /\ sel' = retryResources
    /\ store0' = store
    /\ writes' = <<>>
    /\ pc' = "idle"
    /\ chosen' = <<>>
    /\ expPos' = 0
    /\ expanded' = <<>>
    /\ listed' = <<>>
    /\ files' = <<>>
    /\ tracking' = <<>>
    /\ loaded' = <<>>
    /\ idx' = 0
    /\ runner' = <<>>
    /\ resp' = <<>>
    /\ failedUrls' = <<>>
    /\ completed' = 0
    /\ existingPaths' = {}
    /\ zip' = {}
    /\ errorsByType' = [l \in ErrorLabels |-> 0]
    /\ events' = <<>>
    /\ responses' = <<>>
    /\ telemetry' = NoTelemetry
    /\ progress' = <<>>
    /\ UNCHANGED <<unitVars, streamVars, sessionVars, kinds, store, shown, pool, resetOf>>

InitRetry ==
    /\ \E s \in Selections(Page) : InitBuildWith(s, PoolResponses, <<>>)
    /\ StreamIdle /\ NoSession /\ AuxIdle /\ UnitsIdle

NextRetry == Next \/ RetryClicked

SpecRetry == InitRetry /\ [][NextRetry]_vars

\* C24: the build the retry starts has as its input exactly the failed
\* subset of the build before: every URL of that build's failedUrls is
\* fetched again, and no resource that succeeded in it is fetched again.
C24_RetryScope ==
    retryOf.retry =>
        /\ \A k \in 1..Len(retryOf.failed) : \E i \in 1..Len(sel) : sel[i].url = retryOf.failed[k]
        /\ \A i \in 1..Len(sel) : \E k \in 1..Len(retryOf.failed) : sel[i].url = retryOf.failed[k]
        /\ (pc = "fetch" \/ FetchStageOver) =>
              /\ \A k \in 1..Len(retryOf.failed) :
                    \E i \in 1..Len(files) : files[i].url = retryOf.failed[k]
              /\ \A i \in 1..Len(files) : files[i].url \notin retryOf.archived

\* ------------------------------------------------------- the storage wrapper

\* the keys of StorageSchema and values, written as their JSON text
StorageKeys == {"downloadTracking", "telemetryAsked", "telemetryOptIn"}
StorageValues == {"true", "false", "{}"}
Undefined == "undefined"

\* chrome.storage.local.get(key): an object with the one property key
storageLocalGet(area, key) ==
    <<[key |-> key, val |-> IF MapHas(area, key) THEN MapGet(area, key) ELSE Undefined]>>

\* chrome.storage.local.set(items): Object.assign(store, items)
storageLocalSet(area, items) == MapPut(area, items[1].key, items[1].val)

\* a remove that leaves the area as it is
storageLocalRemoveNothing(area, key) == area

\* chrome.storage.local.remove(key): delete store[key]
storageLocalRemove(area, key) ==
    LET Other(e) == e.key # key
    IN  SelectSeq(area, Other)

\* chrome.storage.local.clear()
storageLocalClear(area) == <<>>

\* storage.get(key): result[key]
storageGet(area, key) == MapGet(storageLocalGet(area, key), key)

\* storage.set(key, value): storageLocalSet({ [key]: value })
storageSet(area, key, value) == storageLocalSet(area, <<[key |-> key, val |-> value]>>)

StorageCall(op, key, value, result) ==
    [op |-> op, key |-> key, value |-> value, result |-> result]

InitStorage ==
    /\ NoBuild /\ StreamIdle /\ NoSession /\ AuxIdle
    /\ unitPc = "storage"
    /\ kvStore = <<>>
    /\ calls = <<>>
    /\ loads = <<>>
    /\ sanIn = <<>> /\ sanOut = <<>> /\ sanAgain = <<>>
    /\ registry = {}
    /\ dedIn = <<>> /\ dedOut = <<>> /\ dedAgain = <<>>

StorageGet(key) ==
    /\ unitPc = "storage"
    /\ Len(calls) < MaxOps
    /\ calls' = Append(calls, StorageCall("get", key, Undefined, storageGet(kvStore, key)))
    /\ UNCHANGED <<auxVars, buildVars, streamVars, sessionVars, unitPc, sanIn, sanOut, sanAgain,
                   registry, dedIn, dedOut, dedAgain, kvStore, loads>>

StorageSet(key, value) ==
    /\ unitPc = "storage"
    /\ Len(calls) < MaxOps
    /\ kvStore' = storageSet(kvStore, key, value)
    /\ calls' = Append(calls, StorageCall("set", key, value, Undefined))
    /\ UNCHANGED <<auxVars, buildVars, streamVars, sessionVars, unitPc, sanIn, sanOut, sanAgain,
                   registry, dedIn, dedOut, dedAgain, loads>>

StorageRemove(key) ==
    /\ unitPc = "storage"
    /\ Len(calls) < MaxOps
    /\ kvStore' = storageLocalRemove(kvStore, key)
    /\ calls' = Append(calls, StorageCall("remove", key, Undefined, Undefined))
    /\ UNCHANGED <<auxVars, buildVars, streamVars, sessionVars, unitPc, sanIn, sanOut, sanAgain,
                   registry, dedIn, dedOut, dedAgain, loads>>

StorageClear ==
    /\ unitPc = "storage"
    /\ Len(calls) < MaxOps
    /\ kvStore' = storageLocalClear(kvStore)
    /\ calls' = Append(calls, StorageCall("clear", Undefined, Undefined, Undefined))
    /\ UNCHANGED <<auxVars, buildVars, streamVars, sessionVars, unitPc, sanIn, sanOut, sanAgain,
                   registry, dedIn, dedOut, dedAgain, loads>>

NextStorage ==
    \/ \E key \in StorageKeys : StorageGet(key)
    \/ \E key \in StorageKeys, value \in StorageValues : StorageSet(key, value)
    \/ \E key \in StorageKeys : StorageRemove(key)
    \/ StorageClear

SpecStorage == InitStorage /\ [][NextStorage]_vars

\* the calls before the j-th that wrote, removed or cleared the key
Touching(key, j) ==
    {i \in 1..(j - 1) : \/ calls[i].op = "clear"
                        \/ calls[i].op \in {"set", "remove"} /\ calls[i].key = key}

\* what the calls before the j-th left under the key
LastSet(key, j) ==
    IF Touching(key, j) = {} THEN Undefined
    ELSE LET i == CHOOSE a \in Touching(key, j) : \A b \in Touching(key, j) : b <= a
         IN  IF calls[i].op = "set" THEN calls[i].value ELSE Undefined

ReadsLastSet ==
    \A j \in 1..Len(calls) :
        calls[j].op = "get" => calls[j].result = LastSet(calls[j].key, j)

KeysApart ==
    \A key \in StorageKeys :
        (/\ Len(calls') = Len(calls) + 1
         /\ calls'[Len(calls')].op \in {"set", "remove"}
         /\ calls'[Len(calls')].key # key)
        => storageGet(kvStore', key) = storageGet(kvStore, key)

WorkerResult(item, index) == <<item, index>>

EmptySlot == <<>>

\* a run() that does not move the shared counter
TakeIndexNoStep(p, w) ==
    [p EXCEPT !.runners[w] = Runner("work", p.idx + 1),
              !.invoked[p.idx + 1] = @ + 1]

\* run() takes an index: const current = idx; idx += 1; worker(items[current], current)
TakeIndex(p, w) ==
    [p EXCEPT !.runners[w] = Runner("work", p.idx + 1),
              !.idx = p.idx + 1,
              !.invoked[p.idx + 1] = @ + 1]

\* run(): the loop test, with the runner's promise resolving when it fails
RunLoop(p, w) ==
    IF p.idx < Len(p.items) THEN TakeIndex(p, w)
    ELSE [p EXCEPT !.runners[w] = Runner("end", 0)]

RECURSIVE StartRunners(_, _, _)
\* Array.from({ length }, () => run()): each run() goes up to its first await
StartRunners(p, w, k) ==
    IF w > k THEN p ELSE StartRunners(RunLoop(p, w), w + 1, k)

PoolInputs ==
    {[st |-> "called", items |-> items, limit |-> limit, idx |-> 0, runners |-> <<>>,
      results |-> <<>>, invoked |-> <<>>] :
        items \in UNION {[1..n -> {"a", "b"}] : n \in 0..MaxItems}, limit \in 1..MaxLimit}

InitPool ==
    /\ NoBuild /\ StreamIdle /\ NoSession /\ UnitsIdle
    /\ retryOf = NoRetry /\ shown = NoCounts /\ telemetry = NoTelemetry /\ progress = <<>>
    /\ resetOf = NoReset
    /\ pool \in PoolInputs

\* withConcurrency(items, limit, worker) up to await Promise.all(runners)
PoolCalled ==
    /\ pool.st = "called"
    /\ LET n == Len(pool.items)
           k == PoolSize(pool.limit, n)
           p0 == [pool EXCEPT !.st = "running",
                              !.results = [i \in 1..n |-> EmptySlot],
                              !.invoked = [i \in 1..n |-> 0],
                              !.runners = [w \in 1..k |-> Runner("new", 0)]]
       IN pool' = StartRunners(p0, 1, k)
    /\ UNCHANGED <<buildVars, streamVars, sessionVars, unitVars, retryOf, shown, telemetry,
                   progress, resetOf>>

\* the worker of runner w resolves: results[current] = ..., then the loop test
WorkerResolved(w) ==
    /\ pool.st = "running"
    /\ w \in DOMAIN pool.runners
    /\ pool.runners[w].st = "work"
    /\ LET current == pool.runners[w].item
           stored == [pool EXCEPT !.results[current] =
                                      WorkerResult(pool.items[current], current)]
       IN pool' = RunLoop(stored, w)
    /\ UNCHANGED <<buildVars, streamVars, sessionVars, unitVars, retryOf, shown, telemetry,
                   progress, resetOf>>

\* Promise.all(runners) resolves and withConcurrency returns results
PoolReturns ==
    /\ pool.st = "running"
    /\ \A w \in DOMAIN pool.runners : pool.runners[w].st = "end"
    /\ pool' = [pool EXCEPT !.st = "resolved"]
    /\ UNCHANGED <<buildVars, streamVars, sessionVars, unitVars, retryOf, shown, telemetry,
                   progress, resetOf>>

NextPool == PoolCalled \/ (\E w \in 1..MaxLimit : WorkerResolved(w)) \/ PoolReturns

SpecPool == InitPool /\ [][NextPool]_vars

\* the indexes whose worker is running
InFlight == {pool.runners[w].item : w \in {v \in DOMAIN pool.runners : pool.runners[v].st = "work"}}

\* C29: no index is given to the worker twice and no two runners hold the
\* same index; a runner holds one index at a time and the indexes are handed
\* out in order from the shared counter; when the promise has resolved every
\* index was given to the worker exactly once, no worker is running, and
\* results[i] is the result of items[i].
C29_PoolExactlyOnce ==
    pool.st \in {"running", "resolved"} =>
        /\ \A i \in DOMAIN pool.invoked : pool.invoked[i] = IF i <= pool.idx THEN 1 ELSE 0
        /\ \A v, w \in DOMAIN pool.runners :
              (v # w /\ pool.runners[v].st = "work" /\ pool.runners[w].st = "work")
              => pool.runners[v].item # pool.runners[w].item
        /\ Len(pool.runners) <= pool.limit
        /\ \A i \in DOMAIN pool.results :
              pool.results[i] =
                 IF i <= pool.idx /\ i \notin InFlight
                 THEN WorkerResult(pool.items[i], i) ELSE EmptySlot
        /\ pool.st = "resolved" =>
              /\ InFlight = {}
              /\ \A i \in DOMAIN pool.items :
                    /\ pool.invoked[i] = 1
                    /\ pool.results[i] = WorkerResult(pool.items[i], i)

C29_Witness ==
    /\ pool.st = "resolved"
    /\ Len(pool.items) = 3
    /\ pool.limit = 2
    /\ pool.items[1] # pool.items[2]

\* ------------------------------------------------------- one outcome per file

EntriesOf(i) == {e \in zip : e.file = i}

\* the record of the key is the one the build loaded
Untracked(key) ==
    IF MapHas(loaded, key)
    THEN MapHas(tracking, key) /\ MapGet(tracking, key) = MapGet(loaded, key)
    ELSE ~MapHas(tracking, key)

\* outcome (a): one entry in the archive, a tracking record with the hash of
\* the bytes, not in failedUrls
OutcomeArchived(i) ==
    /\ Cardinality(EntriesOf(i)) = 1
    /\ Occurrences(failedUrls, files[i].url) = 0
    /\ MapHas(tracking, normalizeUrlKey(files[i].url))
    /\ \A e \in EntriesOf(i) :
          MapGet(tracking, normalizeUrlKey(files[i].url)).hash = calculateHash(e.data)

\* outcome (b): once in failedUrls, no entry in the archive, tracking record
\* as loaded
OutcomeFailed(i) ==
    /\ Occurrences(failedUrls, files[i].url) = 1
    /\ EntriesOf(i) = {}
    /\ Untracked(normalizeUrlKey(files[i].url))

\* C30: when the fetch stage is over every file of the deduped list has
\* outcome (a) or outcome (b) and not both; the archive has successCount
\* entries and successCount + failedUrls.length = totalCount.
C30_OneOutcomePerFile ==
    FetchStageOver =>
        /\ \A i \in 1..Len(files) : OutcomeArchived(i) # OutcomeFailed(i)
        /\ Cardinality(zip) = successfulCount(Len(files), failedUrls)
        /\ successfulCount(Len(files), failedUrls) + Len(failedUrls) = Len(files)

\* ------------------------------------------------------- telemetry

\* what the build gives back and leaves behind, told from the pipeline alone
OutcomeWithoutTelemetry ==
    /\ store = tracking
    /\ events # <<>>
    /\ events[Len(events)] = Complete(TRUE, successfulCount(Len(files), failedUrls),
                                      Len(failedUrls))
    /\ pc = "done" =>
          /\ responses # <<>>
          /\ responses[Len(responses)].ok
          /\ responses[Len(responses)].failedUrls = failedUrls
          /\ responses[Len(responses)].hasBuffer => responses[Len(responses)].zipBuffer = zip

\* C27: a telemetry request that fails does not change the outcome of the
\* build: archive, failedUrls, counts and persisted map are those of the
\* pipeline, as they are with telemetry off or sent; the build fails after
\* the telemetry call only through its download.
C27_TelemetryBestEffort ==
    telemetry.request # "none" =>
        /\ pc \in {"download", "done", "failed"}
        /\ pc \in {"download", "done"} => OutcomeWithoutTelemetry
        /\ pc = "failed" =>
              /\ responses[Len(responses)].error = RaisedBy("download")
              /\ store = tracking

C27_Witness ==
    /\ telemetry.optIn
    /\ telemetry.request = "error"
    /\ pc = "done"
    /\ failedUrls # <<>>
    /\ zip # {}

\* --------------------------------------------------- the counts the popup shows

\* buildZipStream hands startDownload the fileCount of MD_ZIP_STREAM_META,
\* which the port handler filled with successfulCount; after the fallback it
\* hands it selectedResources.length
fileCountOf(path) ==
    IF path = "stream" THEN successfulCount(Len(files), failedUrls) ELSE Len(sel)

okCount(fileCount, lastFailed) ==
    IF fileCount - Len(lastFailed) > 0 THEN fileCount - Len(lastFailed) ELSE 0

\* startDownload after buildZipStream resolved: the status text, the
\* MD_NOTIFY_SAVE_DONE message and the notice of the failed files
DownloadComplete(path) ==
    /\ pc = "done"
    /\ responses # <<>>
    /\ responses[Len(responses)].ok
    /\ shown = NoCounts
    /\ LET lastFailed == responses[Len(responses)].failedUrls
       IN shown' = [path |-> path,
                    status |-> okCount(fileCountOf(path), lastFailed),
                    notified |-> okCount(fileCountOf(path), lastFailed),
                    notice |-> Len(lastFailed)]
    /\ UNCHANGED <<buildVars, streamVars, sessionVars, unitVars, retryOf, telemetry, pool,
                   progress, resetOf>>

NextCounts == Next \/ \E path \in {"stream", "fallback"} : DownloadComplete(path)

SpecCounts == Init /\ [][NextCounts]_vars

\* C26: after a build with S archived and F failed files the status text
\* and the save-done notification carry S and the notice of the failed
\* files carries F, on the streamed path and on the fallback path.
C26_DisplayedCounts ==
    shown.path # "none" =>
        /\ shown.status = successfulCount(Len(files), failedUrls)
        /\ shown.notified = successfulCount(Len(files), failedUrls)
        /\ shown.notice = Len(failedUrls)

\* ------------------------------------------------------- joinZipPath

\* archive paths of resources: none (no course and no section name was
\* found), a section, a folder in a section, an empty component, a component
\* with an illegal character
ArchivePaths ==
    { <<>>,
      <<"W", " ", "1">>,
      <<"W", " ", "1", "/", "F">>,
      <<"a", "/", "/", "b">>,
      <<"a", ":", "b", "/", " ">> }

FileNames == { <<"x", ".", "p">>, <<"a", "/", "b">>, <<" ", "y", " ">> }

InitJoin ==
    /\ NoBuild /\ StreamIdle /\ NoSession /\ AuxIdle
    /\ unitPc = "join"
    /\ calls = <<>>
    /\ registry = {}
    /\ sanIn = <<>> /\ sanOut = <<>> /\ sanAgain = <<>>
    /\ dedIn = <<>> /\ dedOut = <<>> /\ dedAgain = <<>>
    /\ kvStore = <<>> /\ loads = <<>>

\* joinZipPath(path, fileName)
JoinPath ==
    /\ unitPc = "join"
    /\ Len(calls) < MaxJoins
    /\ \E path \in ArchivePaths, fileName \in FileNames :
          calls' = Append(calls, [path |-> path, fileName |-> fileName,
                                  result |-> joinZipPath(path, fileName)])
    /\ UNCHANGED <<auxVars, buildVars, streamVars, sessionVars, unitPc, sanIn, sanOut, sanAgain,
                   registry, dedIn, dedOut, dedAgain, kvStore, loads>>

NextJoin == JoinPath

SpecJoin == InitJoin /\ [][NextJoin]_vars

\* the non-empty components of the path, each sanitized
CleanComponents(path) ==
    LET NonEmpty(c) == c # <<>>
        comps == SelectSeq(Split(path, "/"), NonEmpty)
    IN  [i \in 1..Len(comps) |-> sanitizeFileName(comps[i])]

\* C37: joinZipPath(path, name) is the sanitized non-empty components of
\* path joined by '/', then '/' and the sanitized name; every component of
\* the result is a sanitized name; with an empty path the result is the
\* sanitized name alone.
C37_ArchiveEntryPath ==
    \A j \in 1..Len(calls) :
        LET c == calls[j]
            parts == Split(c.result, "/")
        IN /\ c.result = Join(Append(CleanComponents(c.path), sanitizeFileName(c.fileName)), "/")
           /\ \A k \in 1..Len(parts) : parts[k] # <<>> /\ sanitizeFileName(parts[k]) = parts[k]
           /\ c.path = <<>> => c.result = sanitizeFileName(c.fileName)

\* ------------------------------------------------------- the 'only new' filter

\* popup isResourceNew(r): !tracking[normalizeUrlKey(r.url)]
isResourceNew(map, r) == ~MapHas(map, normalizeUrlKey(r.url))

\* popup getVisibleResources()
getVisibleResources(map, onlyNew, resources) ==
    LET New(r) == isResourceNew(map, r)
    IN  IF onlyNew THEN SelectSeq(resources, New) ELSE resources

\* popup loadTracking(): the answer to MD_GET_TRACKING
PopupTracking == Migrated(store)

\* the file of the build that stands for a URL was archived and did not fail
Downloaded(url) ==
    \E i \in 1..Len(files) :
        /\ normalizeUrl(files[i].url) = normalizeUrl(url)
        /\ Archived(i)
        /\ Occurrences(failedUrls, files[i].url) = 0

\* the resource's content was downloaded without failure: the file, or the
\* listing of the folder and every file it named
DownloadedResource(r) ==
    IF r.type = "folder"
    THEN /\ ChildrenOf(r.url) # {}
         /\ \A i \in ChildrenOf(r.url) : Downloaded(expanded[i].url)
    ELSE Downloaded(r.url)

\* C38: after a completed build and the reload of the tracking map, every
\* selected resource that was downloaded without failure is not new and is
\* hidden by the 'only new' filter, and a resource whose fetch failed and
\* that was not tracked before is new.
C38_DownloadedStatus ==
    (pc = "done" /\ responses[Len(responses)].ok) =>
        \A c \in 1..Len(sel) :
            /\ DownloadedResource(sel[c]) =>
                  /\ ~isResourceNew(PopupTracking, sel[c])
                  /\ \A v \in 1..Len(getVisibleResources(PopupTracking, TRUE, sel)) :
                        getVisibleResources(PopupTracking, TRUE, sel)[v] # sel[c]
            /\ (/\ sel[c].type = "file"
                /\ Occurrences(failedUrls, sel[c].url) > 0
                /\ ~MapHas(loaded, normalizeUrlKey(sel[c].url)))
               => isResourceNew(PopupTracking, sel[c])

\* ------------------------------------------------------- the keys of the map

\* every record of the map carries the key it is stored under
UrlIsKey(map) == \A i \in 1..Len(map) : map[i].val.url = map[i].key

\* C36: the map a load returns, and the map in storage after it, have
\* canonical keys only, each record's url is its key, and there is one
\* record for every canonical key of the map that was loaded.
C36_TrackingKeyInvariant ==
    /\ \A j \in 1..Len(loads) :
          /\ Canonical(loads[j].returned)
          /\ UrlIsKey(loads[j].returned)
          /\ MapKeys(loads[j].returned) = {normalizeUrlKey(k) : k \in MapKeys(loads[j].before)}
          /\ Len(loads[j].returned) = Cardinality(MapKeys(loads[j].returned))
    /\ loads # <<>> => Canonical(kvStore) /\ UrlIsKey(kvStore)

\* --------------------------------------------------- a reset during a build

\* onMessage MD_RESET_TRACKING: storage.set(downloadTracking, {}) and the
\* answer; the handler does not look at the builds in progress
ResetTracking ==
    /\ ~resetOf.acked
    /\ store' = <<>>
    /\ resetOf' = [acked |-> TRUE, before |-> store]
    /\ UNCHANGED <<unitVars, streamVars, sessionVars, sel, kinds, store0, writes, pc, chosen,
                   expPos, expanded, listed, files, tracking, loaded, idx, runner, resp,
                   failedUrls, completed, existingPaths, zip, errorsByType, events, responses,
                   retryOf, shown, telemetry, pool, progress>>

InitReset ==
    /\ \E s \in Selections(Page), st \in Stores : InitBuildWith(s, TrackingResponses, st)
    /\ StreamIdle /\ NoSession /\ AuxIdle /\ UnitsIdle

NextReset == Next \/ ResetTracking

SpecReset == InitReset /\ [][NextReset]_vars

\* C35: after an acknowledged reset the persisted map holds no entry that
\* it held before the reset, also when a build that was in progress at the
\* reset persists its map.
C35_ResetDurable ==
    resetOf.acked =>
        \A i \in 1..Len(store), j \in 1..Len(resetOf.before) : store[i] # resetOf.before[j]

====
